---------------------------- MODULE Spec2Model ----------------------------
(***************************************************************************)
(* State-machine model of the OriNet library (Stellacore/OriNet):          *)
(*   - stat::track::Values / Vectors / Attitudes / Transforms  (stat.hpp)  *)
(*   - robust::medianOf                                       (robust.hpp) *)
(*   - compare::maxMagResultDifference                       (compare.hpp) *)
(*   - network::EdgeDir / EdgeBase / EdgeOri / EdgeRobust (networkEdge.hpp)*)
(*   - network::Geometry                              (networkGeometry.cpp)*)
(*                                                                         *)
(* Number representation.  A C++ double is either the invalid value        *)
(* engabra::g3::null<double>() (a NaN), modelled by the empty tuple, or a   *)
(* finite value x, modelled by the 1-tuple <<k>> with k = 2*x: fixed point  *)
(* with one binary digit, so that the mean of two whole numbers is exact.  *)
(* Containers of doubles that the code only ever fills with finite values  *)
(* (track::Values::theValues) hold the bare integers k.                    *)
(***************************************************************************)
EXTENDS Integers, Sequences, FiniteSets, TLC

VARIABLES
    theValues,      \* track::Values under test: its sorted std::vector<double>
    inserted,       \* history: the values given to insert(), in call order
    medians,        \* history: median() as reported after each insert()
    mo_values,      \* robust::medianOf: the vector it is given by reference
    mo_input,       \* history: that vector as it was when medianOf was called
    mo_result,      \* the double medianOf returned
    mo_done,        \* TRUE once medianOf has returned
    xformTracker,   \* track::Transforms under test
    xformsInserted, \* history: the transforms given to its insert(), in order
    cmp_this,       \* EdgeDir::compareTo: the direction it is called on
    cmp_test,       \* EdgeDir::compareTo: its argument testDir
    cmp_result,     \* the DirCompare it returned ("none" before the call)
    edge,           \* an edge object (EdgeBase, EdgeOri or EdgeRobust)
    edgeSamples,    \* history: the transforms accumulated into that edge
    edgeBefore,     \* history: the edge reversedInstance() was last called on
    theVertIdFromStaKey,  \* Geometry: std::map<StaKey, VertId>
    theGraph,       \* Geometry: graaf::undirected_graph<StaFrame, edge>
    fatal,          \* Geometry: TRUE once the process has left by exit(1)
    insertedEdges,  \* history: the edges given to Geometry::insertEdge
    heap,           \* the edge objects shared pointers point to, by address
    askedDir,       \* Geometry::edge: its argument edgeDir
    foundEdge,      \* Geometry::edge: the pointer it returned
    spanIds,        \* the edge ids spanningEdgeBases() returned
    treeIds,        \* Geometry::networkTree: its argument eIds
    tree,           \* the Geometry networkTree returned
    treeValues,     \* history: transform and weight of the edges of tree
                    \* when networkTree returned
    anchorKey,      \* propagateTransforms: its argument staKey0
    anchorXform,    \* propagateTransforms: its argument staXform0
    staXforms,      \* the map propagateTransforms returned
    visits,         \* history: per station key, how often the traversal
                    \* assigned it a transform
    observations,   \* history: the directions given to updateNetwork steps
    onlyProtocol,   \* history: FALSE once an edge was inserted without lookup
    poses,          \* the station poses S_k the edges were computed from
    rb_xforms,      \* robust: the collection of transforms handed over
    rb_viaParameters,   \* << what transformViaParameters returned >>
    rb_viaEffect,   \* << what transformViaEffect returned >>
    nr_x1w0,        \* compare: the first transform compared
    nr_x2w0,        \* compare: the second transform compared
    nr_gotMaxMag,   \* << what maxMagResultDifference returned >>
    al_refDirPair,  \* align: the direction pair in the reference frame
    al_bodDirPair,  \* align: the direction pair in the body frame
    al_gotAtt       \* << the attitude alignDirPair returned >>

varsValues == <<theValues, inserted, medians>>
varsMedianOf == <<mo_values, mo_input, mo_result, mo_done>>
varsTransforms == <<xformTracker, xformsInserted>>
varsEdgeDir == <<cmp_this, cmp_test, cmp_result>>
varsEdge == <<edge, edgeSamples, edgeBefore>>
varsGeometry == <<theVertIdFromStaKey, theGraph, fatal, insertedEdges>>
varsCalls == <<askedDir, foundEdge, spanIds, treeIds, tree, treeValues,
               anchorKey, anchorXform, staXforms, visits, observations,
               onlyProtocol, poses>>
varsNetwork == <<heap, varsCalls>>
varsRobust == <<rb_xforms, rb_viaParameters, rb_viaEffect>>
varsCompare == <<nr_x1w0, nr_x2w0, nr_gotMaxMag>>
varsAlign == <<al_refDirPair, al_bodDirPair, al_gotAtt>>
vars == <<varsValues, varsMedianOf, varsTransforms, varsEdgeDir, varsEdge,
          varsGeometry, varsNetwork, varsRobust, varsCompare, varsAlign>>

\* The variables each specification leaves alone.
restOfValues ==
    <<varsMedianOf, varsTransforms, varsEdgeDir, varsEdge, varsGeometry,
      varsNetwork, varsRobust, varsCompare, varsAlign>>
restOfMedianOf ==
    <<varsValues, varsTransforms, varsEdgeDir, varsEdge, varsGeometry,
      varsNetwork, varsRobust, varsCompare, varsAlign>>
restOfTransforms ==
    <<varsValues, varsMedianOf, varsEdgeDir, varsEdge, varsGeometry,
      varsNetwork, varsRobust, varsCompare, varsAlign>>
restOfEdgeDir ==
    <<varsValues, varsMedianOf, varsTransforms, varsEdge, varsGeometry,
      varsNetwork, varsRobust, varsCompare, varsAlign>>
restOfEdge ==
    <<varsValues, varsMedianOf, varsTransforms, varsEdgeDir, varsGeometry,
      varsNetwork, varsRobust, varsCompare, varsAlign>>
restOfGeometry ==
    <<varsValues, varsMedianOf, varsTransforms, varsEdgeDir, varsEdge,
      varsNetwork, varsRobust, varsCompare, varsAlign>>
restOfNetwork ==
    <<varsValues, varsMedianOf, varsTransforms, varsEdgeDir, varsEdge,
      varsRobust, varsCompare, varsAlign>>
restOfRobust ==
    <<varsValues, varsMedianOf, varsTransforms, varsEdgeDir, varsEdge,
      varsGeometry, varsNetwork, varsCompare, varsAlign>>
restOfCompare ==
    <<varsValues, varsMedianOf, varsTransforms, varsEdgeDir, varsEdge,
      varsGeometry, varsNetwork, varsRobust, varsAlign>>
restOfAlign ==
    <<varsValues, varsMedianOf, varsTransforms, varsEdgeDir, varsEdge,
      varsGeometry, varsNetwork, varsRobust, varsCompare>>

\* Longest sequence of insert() calls explored on a track::Values.
MaxInserts == 5

\* Longest vector handed to robust::medianOf.
MaxMedianLen == 4

\* Most transforms inserted into a track::Transforms.
MaxSamples == 4
\* Number of station keys below the null key.
NumKeys == 3
\* Largest number of transforms accumulated into one edge.
MaxAccum == 3
\* Largest number of Geometry::insertEdge calls.
MaxEdges == 3

(***************************************************************************)
(* Each specification below drives one component; the variables of the     *)
(* other components stay as these predicates leave them.                   *)
(***************************************************************************)
IdleValues ==
    /\ theValues = << >>
    /\ inserted = << >>
    /\ medians = << >>

IdleMedianOf ==
    /\ mo_values = << >>
    /\ mo_input = << >>
    /\ mo_result = << >>
    /\ mo_done = FALSE

IdleTransforms ==
    /\ xformTracker = << >>
    /\ xformsInserted = << >>

IdleEdgeDir ==
    /\ cmp_this = << >>
    /\ cmp_test = << >>
    /\ cmp_result = "none"

IdleEdge ==
    /\ edge = << >>
    /\ edgeSamples = << >>
    /\ edgeBefore = << >>

IdleGeometry ==
    /\ theVertIdFromStaKey = << >>
    /\ theGraph = << >>
    /\ fatal = FALSE
    /\ insertedEdges = << >>

\* No call on a Geometry has been made.
IdleCalls ==
    /\ askedDir = << >>
    /\ foundEdge = 0
    /\ spanIds = << >>
    /\ treeIds = << >>
    /\ tree = << >>
    /\ treeValues = << >>
    /\ anchorKey = 0
    /\ anchorXform = << >>
    /\ staXforms = << >>
    /\ visits = << >>
    /\ observations = << >>
    /\ onlyProtocol = TRUE
    /\ poses = << >>

IdleNetwork == heap = << >> /\ IdleCalls

\* No estimator of robust.hpp has been called.
IdleRobust ==
    /\ rb_xforms = << >>
    /\ rb_viaParameters = << >>
    /\ rb_viaEffect = << >>

\* Nothing has been compared.
IdleCompare ==
    /\ nr_x1w0 = << >>
    /\ nr_x2w0 = << >>
    /\ nr_gotMaxMag = << >>

\* Nothing has been aligned.
IdleAlign ==
    /\ al_refDirPair = << >>
    /\ al_bodDirPair = << >>
    /\ al_gotAtt = << >>

\* The three components above together.
IdleKernel == IdleRobust /\ IdleCompare /\ IdleAlign

IdleExceptValues ==
    IdleMedianOf /\ IdleTransforms /\ IdleEdgeDir /\ IdleEdge /\ IdleGeometry
    /\ IdleNetwork /\ IdleKernel
IdleExceptMedianOf ==
    IdleValues /\ IdleTransforms /\ IdleEdgeDir /\ IdleEdge /\ IdleGeometry
    /\ IdleNetwork /\ IdleKernel
IdleExceptTransforms ==
    IdleValues /\ IdleMedianOf /\ IdleEdgeDir /\ IdleEdge /\ IdleGeometry
    /\ IdleNetwork /\ IdleKernel
IdleExceptEdgeDir ==
    IdleValues /\ IdleMedianOf /\ IdleTransforms /\ IdleEdge /\ IdleGeometry
    /\ IdleNetwork /\ IdleKernel
IdleExceptEdge ==
    IdleValues /\ IdleMedianOf /\ IdleTransforms /\ IdleEdgeDir
    /\ IdleGeometry /\ IdleNetwork /\ IdleKernel
IdleExceptGeometry ==
    IdleValues /\ IdleMedianOf /\ IdleTransforms /\ IdleEdgeDir /\ IdleEdge
    /\ IdleKernel
IdleExceptNetwork ==
    IdleValues /\ IdleMedianOf /\ IdleTransforms /\ IdleEdgeDir /\ IdleEdge
    /\ IdleKernel
IdleExceptRobust ==
    IdleValues /\ IdleMedianOf /\ IdleTransforms /\ IdleEdgeDir /\ IdleEdge
    /\ IdleGeometry /\ IdleNetwork /\ IdleCompare /\ IdleAlign
IdleExceptCompare ==
    IdleValues /\ IdleMedianOf /\ IdleTransforms /\ IdleEdgeDir /\ IdleEdge
    /\ IdleGeometry /\ IdleNetwork /\ IdleRobust /\ IdleAlign
IdleExceptAlign ==
    IdleValues /\ IdleMedianOf /\ IdleTransforms /\ IdleEdgeDir /\ IdleEdge
    /\ IdleGeometry /\ IdleNetwork /\ IdleRobust /\ IdleCompare

(***************************************************************************)
(* doubles                                                                 *)
(***************************************************************************)
\* Fixed-point image of the whole number x.
Fix(x) == 2 * x

\* engabra::g3::null<double>(): the NaN used as "no value".
null == << >>

\* A finite double whose fixed-point image is k.
Dbl(k) == <<k>>

isValidDouble(d) == d # null

\* Values a caller hands to insert(): whole numbers.
ValueSet == { Fix(-2), Fix(-1), Fix(1), Fix(3) }

(***************************************************************************)
(* stat::track::Values                                                     *)
(***************************************************************************)
\* std::lower_bound on a sorted vector: (1-based) position of the first
\* element that is not less than value, Len+1 when there is none.
lower_bound(vals, value) ==
    LET notLess == { i \in 1..Len(vals) : ~(vals[i] < value) }
    IN  IF notLess = {} THEN Len(vals) + 1
        ELSE CHOOSE i \in notLess : \A j \in notLess : i <= j

\* std::vector::insert(it, value): value placed before position pos.
vector_insert(vals, pos, value) ==
    [ i \in 1..(Len(vals) + 1) |->
        IF i < pos THEN vals[i] ELSE IF i = pos THEN value ELSE vals[i - 1] ]

\* Mutant: the value is appended, the sorted order is not kept.
Values_insert_Append(vals, value) == Append(vals, value)

\* track::Values::insert
Values_insert(vals, value) ==
    vector_insert(vals, lower_bound(vals, value), value)

\* Mutant: the even case averages the middle element with the one after it.
Values_median_EvenAfter(vals) ==
    LET numElem == Len(vals)
        ndxHalf == numElem \div 2
    IN  IF 0 < numElem
        THEN IF 1 = numElem % 2
             THEN Dbl(vals[ndxHalf + 1])
             ELSE Dbl((vals[ndxHalf + 1]
                        + vals[IF ndxHalf + 2 <= numElem
                               THEN ndxHalf + 2 ELSE ndxHalf + 1]) \div 2)
        ELSE null

\* track::Values::median  (C++ index i is TLA+ index i + 1)
Values_median(vals) ==
    LET numElem == Len(vals)
        isOdd   == 1 = numElem % 2
        ndxHalf == numElem \div 2
    IN  IF 0 < numElem
        THEN IF isOdd
             THEN Dbl(vals[ndxHalf + 1])
             ELSE LET ndxB4 == ndxHalf - 1
                  IN  Dbl((vals[ndxB4 + 1] + vals[ndxHalf + 1]) \div 2)
        ELSE null

\* track::Values::medianPrev
Values_medianPrev(vals) ==
    LET numElem == Len(vals)
        ndxHalf == numElem \div 2
    IN  IF 1 < numElem THEN Dbl(vals[(ndxHalf - 1) + 1]) ELSE null

\* Mutant: the odd case is not told apart from the even case.
Values_medianNext_NoOdd(vals) ==
    LET numElem == Len(vals)
        ndxHalf == numElem \div 2
    IN  IF 1 < numElem THEN Dbl(vals[ndxHalf + 1]) ELSE null

\* track::Values::medianNext
Values_medianNext(vals) ==
    LET numElem == Len(vals)
        isOdd   == 1 = numElem % 2
        ndxHalf == numElem \div 2
    IN  IF 1 < numElem
        THEN IF isOdd
             THEN Dbl(vals[(ndxHalf + 1) + 1])
             ELSE Dbl(vals[ndxHalf + 1])
        ELSE null

(***************************************************************************)
(* Specification SpecValues: a track::Values driven by insert() calls,     *)
(* median() read after each call as test_stat.cpp test0 does.              *)
(***************************************************************************)
InitValues ==
    /\ theValues = << >>
    /\ inserted = << >>
    /\ medians = << >>
    /\ IdleExceptValues

\* stats.insert(value); checkMedian(stats, ...)
InsertValue(value) ==
    /\ theValues' = Values_insert(theValues, value)
    /\ inserted' = Append(inserted, value)
    /\ medians' = Append(medians, Values_median(theValues'))
    /\ UNCHANGED restOfValues

NextValues ==
    \E value \in ValueSet :
        /\ Len(inserted) < MaxInserts
        /\ InsertValue(value)

SpecValues == InitValues /\ [][NextValues]_vars

(***************************************************************************)
(* Reference order statistics, computed from the call history alone.       *)
(***************************************************************************)
\* The inserted multiset in ascending order.
Sorted(seq) == SortSeq(seq, LAMBDA a, b : a < b)

\* v[i] for the 0-based index i used in the documentation.
At(v, i) == v[i + 1]

\* C1: after any finite sequence of insert calls, median() is the
\* middle-order value of the inserted multiset: null when n = 0, v[n/2] when
\* n is odd, (v[n/2-1] + v[n/2])/2 when n is even (v the ascending order).
C1_MedianIsMiddleOrder ==
    LET v == Sorted(inserted)
        n == Len(inserted)
    IN  /\ Len(theValues) = n
        /\ Values_median(theValues) =
             IF n = 0 THEN null
             ELSE IF n % 2 = 1 THEN Dbl(At(v, n \div 2))
             ELSE Dbl((At(v, n \div 2 - 1) + At(v, n \div 2)) \div 2)

\* C1 witness: an even number of values, inserted out of order with a
\* duplicate, whose median is the mean of two different middle values.
C1_Witness ==
    /\ Len(inserted) = 4
    /\ inserted # Sorted(inserted)
    /\ \E i, j \in 1..4 : i # j /\ inserted[i] = inserted[j]
    /\ theValues[2] # theValues[3]
    /\ Values_median(theValues) = Dbl((theValues[2] + theValues[3]) \div 2)

\* C2: for n < 2 medianPrev() and medianNext() are null; for odd n >= 3
\* they are v[n/2-1] and v[n/2+1]; for even n they are v[n/2-1] and v[n/2].
C2_PrevNextAreFlanking ==
    LET v == Sorted(inserted)
        n == Len(inserted)
    IN  /\ n < 2 =>
             /\ Values_medianPrev(theValues) = null
             /\ Values_medianNext(theValues) = null
        /\ (n >= 3 /\ n % 2 = 1) =>
             /\ Values_medianPrev(theValues) = Dbl(At(v, n \div 2 - 1))
             /\ Values_medianNext(theValues) = Dbl(At(v, n \div 2 + 1))
        /\ (n >= 2 /\ n % 2 = 0) =>
             /\ Values_medianPrev(theValues) = Dbl(At(v, n \div 2 - 1))
             /\ Values_medianNext(theValues) = Dbl(At(v, n \div 2))

\* C2 witness: five values inserted out of order whose three middle values
\* are all different.
C2_Witness ==
    /\ Len(inserted) = 5
    /\ inserted # Sorted(inserted)
    /\ Values_medianPrev(theValues) # Values_median(theValues)
    /\ Values_medianNext(theValues) # Values_median(theValues)
    /\ Values_medianPrev(theValues) # Values_medianNext(theValues)

(***************************************************************************)
(* Specification SpecScenario: test_stat.cpp test0.  The six values        *)
(* -8, -6, 9, -1, 3, 1 are inserted, each once, in any order; then 4.      *)
(***************************************************************************)
ScenarioListed == << Fix(-8), Fix(-6), Fix(9), Fix(-1), Fix(3), Fix(1) >>
ScenarioSix == { ScenarioListed[i] : i \in 1..6 }
ScenarioLast == Fix(4)

\* The medians -8, -7, -6, -3.5, -1, 0, 1.
ScenarioMedians ==
    << Dbl(Fix(-8)), Dbl(Fix(-7)), Dbl(Fix(-6)), Dbl(-7), Dbl(Fix(-1)),
       Dbl(Fix(0)), Dbl(Fix(1)) >>

InsertOneOfSix ==
    \E value \in ScenarioSix :
        /\ \A i \in 1..Len(inserted) : inserted[i] # value
        /\ InsertValue(value)

InsertLast ==
    /\ Len(inserted) = 6
    /\ InsertValue(ScenarioLast)

NextScenario == InsertOneOfSix \/ InsertLast

SpecScenario == InitValues /\ [][NextScenario]_vars

IsPrefix(s, t) == Len(s) <= Len(t) /\ \A i \in 1..Len(s) : s[i] = t[i]

\* C3 as stated: whatever the order of the six values, the medians reported
\* after the 1st .. 7th insertion are -8, -7, -6, -3.5, -1, 0, 1.
C3_AnyOrderAllMedians == IsPrefix(medians, ScenarioMedians)

\* C3 amended: inserted in the listed order -8, -6, 9, -1, 3, 1 and then 4,
\* the medians after the 1st .. 7th insertion are -8, -7, -6, -3.5, -1, 0, 1;
\* in any order of the six values the medians after the 6th and the 7th
\* insertion are 0 and 1.
C3_ListedOrderMedians ==
    /\ IsPrefix(inserted, Append(ScenarioListed, ScenarioLast))
         => IsPrefix(medians, ScenarioMedians)
    /\ Len(medians) >= 6 => medians[6] = ScenarioMedians[6]
    /\ Len(medians) >= 7 => medians[7] = ScenarioMedians[7]

\* C3 witness: all seven values inserted in the listed order.
C3_Witness ==
    /\ inserted = Append(ScenarioListed, ScenarioLast)
    /\ medians = ScenarioMedians

(***************************************************************************)
(* robust::medianOf                                                        *)
(***************************************************************************)
\* Values found in the vectors handed to medianOf: whole numbers.
MedianValueSet == { Fix(-7), Fix(-1), Fix(1), Fix(3) }

\* Every arrangement of the elements of vals.
Arrangements(vals) ==
    { [ i \in 1..Len(vals) |-> vals[p[i]] ] : p \in Permutations(1..Len(vals)) }

\* std::nth_element(begin, begin + nth, end): the vector is rearranged so
\* that position nth holds the element a full sort would put there, no
\* element before it is greater and none after it is less.  Which of these
\* arrangements results is left to the library.  (nth is a C++ index.)
nth_element(vals, nth) ==
    { arr \in Arrangements(vals) :
        /\ \A i \in 1..nth : ~(arr[nth + 1] < arr[i])
        /\ \A i \in (nth + 2)..Len(vals) : ~(arr[i] < arr[nth + 1]) }

\* Mutant: the element after the middle one is taken as the next larger one,
\* as if nth_element had sorted the whole vector.
min_element_Adjacent(vals, first, last) == first

\* std::min_element(begin + first, begin + last): C++ index of the first
\* smallest element of the range, last when the range is empty.
min_element(vals, first, last) ==
    LET range == { i \in first..(last - 1) :
                     \A j \in first..(last - 1) : ~(vals[j + 1] < vals[i + 1]) }
    IN  IF first >= last THEN last
        ELSE CHOOSE i \in range : \A j \in range : i <= j

\* Mutant: the middle position of an even-sized vector is not moved down.
midN_NoStepDown(sizeN) == sizeN \div 2

\* medianOf, lines 94-109: the position handed to nth_element.
midN(sizeN) ==
    LET isOdd == 1 = sizeN % 2
        halfN == sizeN \div 2
    IN  IF isOdd THEN halfN ELSE halfN - 1

\* medianOf, lines 118-138: the value returned once nth_element has left the
\* vector arranged as arr.
medianOf_value(arr) ==
    LET sizeN == Len(arr)
        isOdd == 1 = sizeN % 2
        itMid == midN(sizeN)
        itEnd == sizeN
        itNext == min_element(arr, itMid + 1, itEnd)
    IN  IF isOdd THEN Dbl(arr[itMid + 1])
        ELSE IF itEnd = itNext THEN null
        ELSE Dbl((arr[itMid + 1] + arr[itNext + 1]) \div 2)

\* medianOf: every (vector left behind, value returned) the call can produce.
medianOf(values) ==
    IF values = << >>
    THEN { [ values |-> values, median |-> null ] }
    ELSE { [ values |-> arr, median |-> medianOf_value(arr) ] :
             arr \in nth_element(values, midN(Len(values))) }

(***************************************************************************)
(* Specification SpecMedianOf: one call of medianOf on any vector of at    *)
(* most MaxMedianLen values.                                               *)
(***************************************************************************)
SeqsUpTo(S, maxLen) == UNION { [ 1..n -> S ] : n \in 0..maxLen }

InitMedianOf ==
    /\ mo_values \in SeqsUpTo(MedianValueSet, MaxMedianLen)
    /\ mo_input = mo_values
    /\ mo_result = null
    /\ mo_done = FALSE
    /\ IdleExceptMedianOf

CallMedianOf ==
    /\ ~mo_done
    /\ \E out \in medianOf(mo_values) :
        /\ mo_values' = out.values
        /\ mo_result' = out.median
    /\ mo_done' = TRUE
    /\ UNCHANGED <<mo_input, restOfMedianOf>>

NextMedianOf == CallMedianOf

SpecMedianOf == InitMedianOf /\ [][NextMedianOf]_vars

\* C4: medianOf returns the same value for every permutation of its input;
\* for a non-empty input that value is the sorted-order one (element n/2 for
\* odd n, mean of elements n/2-1 and n/2 for even n), for an empty input it
\* is null.
C4_MedianOfIsOrderStatistic ==
    mo_done =>
        LET v == Sorted(mo_input)
            n == Len(mo_input)
        IN  /\ mo_result =
                 IF n = 0 THEN null
                 ELSE IF n % 2 = 1 THEN Dbl(At(v, n \div 2))
                 ELSE Dbl((At(v, n \div 2 - 1) + At(v, n \div 2)) \div 2)
            /\ \A perm \in Arrangements(mo_input) :
                 \A out \in medianOf(perm) : out.median = mo_result

\* C4 witness: medianOf has returned for an unsorted vector of four
\* different values that nth_element did not leave sorted.
C4_Witness ==
    /\ mo_done
    /\ Len(mo_input) = 4
    /\ Cardinality({ mo_input[i] : i \in 1..4 }) = 4
    /\ mo_input # Sorted(mo_input)
    /\ mo_values # Sorted(mo_input)
    /\ isValidDouble(mo_result)

(***************************************************************************)
(* Geometric kernel (engabra / rigibra), as far as the library uses it.    *)
(*                                                                         *)
(* A Vector is the invalid vector (a NaN component makes the whole value   *)
(* invalid) or a triple of fixed-point numbers.  An Attitude is the        *)
(* invalid attitude or a rotation, held as the images of e1, e2, e3 (the   *)
(* columns of its matrix, entries whole numbers).  The model's rotations    *)
(* are the identity and the half turn in the e12 plane: the rotations      *)
(* test_alignDirPair.cpp uses as boundary cases, and a set closed under    *)
(* every operation modelled here.                                          *)
(***************************************************************************)
\* engabra::g3::null<Vector>()
nullVector == << >>

isValidVector(v) == v # nullVector

\* engabra::g3::Vector{ x, y, z } built from three doubles.
Vector(dx, dy, dz) ==
    IF isValidDouble(dx) /\ isValidDouble(dy) /\ isValidDouble(dz)
    THEN << dx[1], dy[1], dz[1] >>
    ELSE nullVector

\* Component k (C++ index) of a vector, as a double.
VectorAt(v, k) == IF isValidVector(v) THEN Dbl(v[k + 1]) ELSE null

zeroVector == << 0, 0, 0 >>
e1 == << Fix(1), 0, 0 >>
e2 == << 0, Fix(1), 0 >>
e3 == << 0, 0, Fix(1) >>

VecAdd(a, b) ==
    IF isValidVector(a) /\ isValidVector(b)
    THEN << a[1] + b[1], a[2] + b[2], a[3] + b[3] >>
    ELSE nullVector

VecNeg(a) ==
    IF isValidVector(a) THEN << -a[1], -a[2], -a[3] >> ELSE nullVector

VecSub(a, b) == VecAdd(a, VecNeg(b))

\* rho * v for a fixed-point factor rho.
VecScale(rho, v) ==
    IF isValidDouble(rho) /\ isValidVector(v)
    THEN << (rho[1] * v[1]) \div Fix(1), (rho[1] * v[2]) \div Fix(1),
            (rho[1] * v[3]) \div Fix(1) >>
    ELSE nullVector

\* Largest r with r * r <= n: the square root rounded to the number grid.
ISqrt(n) == CHOOSE r \in 0..n : r * r <= n /\ n < (r + 1) * (r + 1)

\* engabra::g3::magnitude(Vector)
magnitude(v) ==
    IF isValidVector(v)
    THEN Dbl(ISqrt(v[1] * v[1] + v[2] * v[2] + v[3] * v[3]))
    ELSE null

\* .5 * d
HalfOf(d) == IF isValidDouble(d) THEN Dbl(d[1] \div 2) ELSE null

\* std::max(a, b) on doubles: (a < b) ? b : a, false for any NaN operand.
max(a, b) ==
    IF isValidDouble(a) /\ isValidDouble(b) /\ a[1] < b[1] THEN b ELSE a

\* rigibra::null<Attitude>()
nullAttitude == << >>

isValidAttitude(att) == att # nullAttitude

identityAttitude == << <<1, 0, 0>>, <<0, 1, 0>>, <<0, 0, 1>> >>

\* The half turn exp((pi/2) e12) of test_alignDirPair.cpp test1.
halfTurnAttitude == << <<-1, 0, 0>>, <<0, -1, 0>>, <<0, 0, 1>> >>

AttitudeSet == { identityAttitude, halfTurnAttitude }

\* Attitude::operator()(Vector): the rotated vector.
Attitude_apply(att, v) ==
    IF isValidAttitude(att) /\ isValidVector(v)
    THEN [ i \in 1..3 |->
             att[1][i] * v[1] + att[2][i] * v[2] + att[3][i] * v[3] ]
    ELSE nullVector

\* rigibra::inverse(Attitude): the transposed matrix.
Attitude_inverse(att) ==
    IF isValidAttitude(att)
    THEN [ k \in 1..3 |-> [ i \in 1..3 |-> att[i][k] ] ]
    ELSE nullAttitude

\* Attitude * Attitude: (a * b)(v) = a(b(v)).
Attitude_compose(a, b) ==
    IF isValidAttitude(a) /\ isValidAttitude(b)
    THEN [ k \in 1..3 |->
             [ i \in 1..3 |->
                 a[1][i] * b[k][1] + a[2][i] * b[k][2] + a[3][i] * b[k][3] ] ]
    ELSE nullAttitude

\* rigibra::null<Transform>()
nullTransform == [ theLoc |-> nullVector, theAtt |-> nullAttitude ]

\* rigibra::Transform{ loc, att }
Transform(loc, att) == [ theLoc |-> loc, theAtt |-> att ]

\* rigibra::isValid(Transform)
isValidTransform(xfm) ==
    isValidVector(xfm.theLoc) /\ isValidAttitude(xfm.theAtt)

\* Transform::operator()(Vector): theAtt(vec - theLoc).
Transform_apply(xfm, v) == Attitude_apply(xfm.theAtt, VecSub(v, xfm.theLoc))

\* rigibra::inverse(Transform)
inverse(xfm) ==
    Transform(VecNeg(Attitude_apply(xfm.theAtt, xfm.theLoc)),
              Attitude_inverse(xfm.theAtt))

\* Transform * Transform: (a * b)(v) = a(b(v)).
Transform_compose(a, b) ==
    Transform(VecAdd(b.theLoc,
                     Attitude_apply(Attitude_inverse(b.theAtt), a.theLoc)),
              Attitude_compose(a.theAtt, b.theAtt))

(***************************************************************************)
(* alignDirPair with the reference pair {e1, e2}                            *)
(***************************************************************************)
\* Bivector part of the geometric product a * b, by its dual vector.
wedge(a, b) ==
    IF isValidVector(a) /\ isValidVector(b)
    THEN << a[2] * b[3] - a[3] * b[2], a[3] * b[1] - a[1] * b[3],
            a[1] * b[2] - a[2] * b[1] >>
    ELSE nullVector

\* Two unit vectors at a right angle.
IsOrthonormal(a, b) ==
    /\ a[1] * a[1] + a[2] * a[2] + a[3] * a[3] = Fix(1) * Fix(1)
    /\ b[1] * b[1] + b[2] * b[2] + b[3] * b[3] = Fix(1) * Fix(1)
    /\ a[1] * b[1] + a[2] * b[2] + a[3] * b[3] = 0

\* alignDirPair({e1, e2}, {into_e1, into_e2}).  The attitude is invalid
\* unless the bivector of the body pair has a magnitude above the tolerance
\* (a NaN fails the comparison).  For an orthonormal body pair in a plane
\* that is not the e12 plane reversed, the planes and the mean directions
\* are aligned by the one rotation that takes e1, e2 to the pair.  No other
\* body pair arises from the rotations of AttitudeSet (the CASE has no
\* other arm, so that one which did would stop the check).
alignDirPair_e1e2(into_e1, into_e2) ==
    LET biv1 == wedge(into_e1, into_e2)
    IN  CASE ~isValidVector(biv1) -> nullAttitude
          [] isValidVector(biv1) /\ biv1 = zeroVector -> nullAttitude
          [] /\ isValidVector(biv1)
             /\ biv1 # zeroVector
             /\ IsOrthonormal(into_e1, into_e2)
             /\ biv1 # VecNeg(wedge(e1, e2)) ->
               << [ i \in 1..3 |-> into_e1[i] \div Fix(1) ],
                  [ i \in 1..3 |-> into_e2[i] \div Fix(1) ],
                  [ i \in 1..3 |-> biv1[i] \div (Fix(1) * Fix(1)) ] >>

(***************************************************************************)
(* compare::maxMagResultDifference                                         *)
(***************************************************************************)
\* compare::triadDeltaVectors
triadDeltaVectors(att1, att2) ==
    IF isValidAttitude(att1) /\ isValidAttitude(att2)
    THEN << VecSub(Attitude_apply(att2, e1), Attitude_apply(att1, e1)),
            VecSub(Attitude_apply(att2, e2), Attitude_apply(att1, e2)),
            VecSub(Attitude_apply(att2, e3), Attitude_apply(att1, e3)) >>
    ELSE << nullVector, nullVector, nullVector >>

\* Mutant: the translations are subtracted as they are, not as the two
\* attitudes turn them.
hexadDeltaVectors_RawOffsets(xfm1, xfm2, useNormalizedCompare) ==
    IF isValidTransform(xfm1) /\ isValidTransform(xfm2)
    THEN LET delta_trans == VecSub(xfm1.theLoc, xfm2.theLoc)
             deltas == triadDeltaVectors(xfm1.theAtt, xfm2.theAtt)
         IN  << VecAdd(delta_trans, deltas[1]), VecSub(delta_trans, deltas[1]),
                VecAdd(delta_trans, deltas[2]), VecSub(delta_trans, deltas[2]),
                VecAdd(delta_trans, deltas[3]), VecSub(delta_trans, deltas[3]) >>
    ELSE << nullVector, nullVector, nullVector,
            nullVector, nullVector, nullVector >>

\* compare::hexadDeltaVectors
hexadDeltaVectors(xfm1, xfm2, useNormalizedCompare) ==
    IF isValidTransform(xfm1) /\ isValidTransform(xfm2)
    THEN LET aveMag == HalfOf(Dbl(magnitude(xfm1.theLoc)[1]
                                   + magnitude(xfm2.theLoc)[1]))
             rho == IF useNormalizedCompare
                    THEN max(Dbl(Fix(1)), aveMag) ELSE Dbl(Fix(1))
             into_t_1 == Attitude_apply(xfm1.theAtt, xfm1.theLoc)
             into_t_2 == Attitude_apply(xfm2.theAtt, xfm2.theLoc)
             delta_trans == VecSub(into_t_1, into_t_2)
             deltas == triadDeltaVectors(xfm1.theAtt, xfm2.theAtt)
             delta_e1 == VecScale(rho, deltas[1])
             delta_e2 == VecScale(rho, deltas[2])
             delta_e3 == VecScale(rho, deltas[3])
         IN  << VecAdd(delta_trans, delta_e1), VecSub(delta_trans, delta_e1),
                VecAdd(delta_trans, delta_e2), VecSub(delta_trans, delta_e2),
                VecAdd(delta_trans, delta_e3), VecSub(delta_trans, delta_e3) >>
    ELSE << nullVector, nullVector, nullVector,
            nullVector, nullVector, nullVector >>

RECURSIVE MaxMagOver(_, _, _)
\* The loop of maxMagResultDifference over diffs[k..].
MaxMagOver(diffs, k, maxMag) ==
    IF k > Len(diffs) THEN maxMag
    ELSE MaxMagOver(diffs, k + 1, max(maxMag, magnitude(diffs[k])))

\* compare::maxMagResultDifference
maxMagResultDifference(xfm1, xfm2, useNormalizedCompare) ==
    IF isValidTransform(xfm1) /\ isValidTransform(xfm2)
    THEN MaxMagOver(hexadDeltaVectors(xfm1, xfm2, useNormalizedCompare),
                    1, Dbl(-Fix(1)))
    ELSE null

(***************************************************************************)
(* stat::track::Vectors, Attitudes, Transforms                             *)
(***************************************************************************)
\* track::Vectors::Vectors: three empty track::Values.
Vectors_new == << << >>, << >>, << >> >>

\* track::Vectors::size
Vectors_size(vecs) == Len(vecs[1])

\* track::Vectors::insert
Vectors_insert(vecs, value) ==
    << Values_insert(vecs[1], value[1]),
       Values_insert(vecs[2], value[2]),
       Values_insert(vecs[3], value[3]) >>

\* track::Vectors::median
Vectors_median(vecs) ==
    Vector(Values_median(vecs[1]), Values_median(vecs[2]),
           Values_median(vecs[3]))

\* track::Vectors::medianPrev
Vectors_medianPrev(vecs) ==
    Vector(Values_medianPrev(vecs[1]), Values_medianPrev(vecs[2]),
           Values_medianPrev(vecs[3]))

\* track::Vectors::medianNext
Vectors_medianNext(vecs) ==
    Vector(Values_medianNext(vecs[1]), Values_medianNext(vecs[2]),
           Values_medianNext(vecs[3]))

\* track::Attitudes::Attitudes: theIntoVecs, two empty track::Vectors.
Attitudes_new == << Vectors_new, Vectors_new >>

\* track::Attitudes::insert
Attitudes_insert(atts, value) ==
    LET into0 == Attitude_apply(value, e1)
        into1 == Attitude_apply(value, e2)
    IN  << Vectors_insert(atts[1], into0), Vectors_insert(atts[2], into1) >>

\* track::Attitudes::attitudeFrom_e1e2
attitudeFrom_e1e2(into_e1, into_e2) == alignDirPair_e1e2(into_e1, into_e2)

\* track::Attitudes::median
Attitudes_median(atts) ==
    attitudeFrom_e1e2(Vectors_median(atts[1]), Vectors_median(atts[2]))

\* track::Attitudes::medianPrev
Attitudes_medianPrev(atts) ==
    attitudeFrom_e1e2(Vectors_medianPrev(atts[1]),
                      Vectors_medianPrev(atts[2]))

\* track::Attitudes::medianNext
Attitudes_medianNext(atts) ==
    attitudeFrom_e1e2(Vectors_medianNext(atts[1]),
                      Vectors_medianNext(atts[2]))

\* track::Transforms::Transforms
Transforms_new == [ theLocs |-> Vectors_new, theAtts |-> Attitudes_new ]

\* track::Transforms::size
Transforms_size(trk) == Vectors_size(trk.theLocs)

\* track::Transforms::insert
Transforms_insert(trk, value) ==
    [ theLocs |-> Vectors_insert(trk.theLocs, value.theLoc),
      theAtts |-> Attitudes_insert(trk.theAtts, value.theAtt) ]

\* track::Transforms::median
Transforms_median(trk) ==
    Transform(Vectors_median(trk.theLocs), Attitudes_median(trk.theAtts))

\* track::Transforms::medianPrev
Transforms_medianPrev(trk) ==
    Transform(Vectors_medianPrev(trk.theLocs),
              Attitudes_medianPrev(trk.theAtts))

\* track::Transforms::medianNext
Transforms_medianNext(trk) ==
    Transform(Vectors_medianNext(trk.theLocs),
              Attitudes_medianNext(trk.theAtts))

\* Mutant: the error of an odd-sized collection is not halved.
Transforms_medianErrorEstimate_NoHalf(trk, useNormalizedCompare) ==
    maxMagResultDifference(Transforms_medianPrev(trk),
                           Transforms_medianNext(trk), useNormalizedCompare)

\* track::Transforms::medianErrorEstimate
Transforms_medianErrorEstimate(trk, useNormalizedCompare) ==
    LET xPrevWrtX == Transforms_medianPrev(trk)
        xNextWrtX == Transforms_medianNext(trk)
        err == maxMagResultDifference(xPrevWrtX, xNextWrtX,
                                      useNormalizedCompare)
        isOdd == 1 = Transforms_size(trk) % 2
    IN  IF isOdd THEN HalfOf(err) ELSE err

(***************************************************************************)
(* Specification SpecTransforms: a track::Transforms driven by insert().   *)
(***************************************************************************)
\* Translations of the transforms handed to the trackers and edges.
LocSet == { zeroVector, << Fix(3), Fix(4), 0 >>, << Fix(-1), Fix(2), Fix(2) >> }

\* The valid transforms handed to the trackers and edges.
XformSet == { Transform(loc, att) : loc \in LocSet, att \in AttitudeSet }

InitTransforms ==
    /\ xformTracker = Transforms_new
    /\ xformsInserted = << >>
    /\ IdleExceptTransforms

InsertXform(value) ==
    /\ xformTracker' = Transforms_insert(xformTracker, value)
    /\ xformsInserted' = Append(xformsInserted, value)
    /\ UNCHANGED restOfTransforms

NextTransforms ==
    \E value \in XformSet :
        /\ Len(xformsInserted) < MaxSamples
        /\ InsertXform(value)

SpecTransforms == InitTransforms /\ [][NextTransforms]_vars

(***************************************************************************)
(* Reference flanking transforms, computed from the call history alone.    *)
(***************************************************************************)
\* Component k (C++ index) of the vectors pick(sample), ascending.
SortedComponent(samples, pick(_), k) ==
    Sorted([ i \in 1..Len(samples) |-> pick(samples[i])[k + 1] ])

\* The vector whose components are the elements at 0-based index idx of the
\* ascending components of the vectors pick(sample).
OrderVector(samples, pick(_), idx) ==
    << At(SortedComponent(samples, pick, 0), idx),
       At(SortedComponent(samples, pick, 1), idx),
       At(SortedComponent(samples, pick, 2), idx) >>

\* The transform made of the order-idx translation and of the attitude
\* fitted to the order-idx images of e1 and e2.
OrderTransform(samples, idx) ==
    Transform(
        OrderVector(samples, LAMBDA x : x.theLoc, idx),
        alignDirPair_e1e2(
            OrderVector(samples, LAMBDA x : Attitude_apply(x.theAtt, e1), idx),
            OrderVector(samples, LAMBDA x : Attitude_apply(x.theAtt, e2), idx)))

\* The error estimate of n >= 2 samples as the documentation states it.
RefErrorEstimate(samples, normalize) ==
    LET n == Len(samples)
        prev == OrderTransform(samples, n \div 2 - 1)
        next == OrderTransform(samples,
                               IF n % 2 = 1 THEN n \div 2 + 1 ELSE n \div 2)
        e == maxMagResultDifference(prev, next, normalize)
    IN  IF n % 2 = 1 THEN HalfOf(e) ELSE e

\* C5: medianErrorEstimate(normalize) is null whenever fewer than 2
\* transforms have been inserted; otherwise, with e the maxMagResultDifference
\* of medianPrev() and medianNext(), it is e/2 when size() is odd and e when
\* size() is even.
C5_ErrorEstimate ==
    \A normalize \in BOOLEAN :
        LET n == Len(xformsInserted)
            got == Transforms_medianErrorEstimate(xformTracker, normalize)
            e == maxMagResultDifference(Transforms_medianPrev(xformTracker),
                                        Transforms_medianNext(xformTracker),
                                        normalize)
        IN  /\ Transforms_size(xformTracker) = n
            /\ n < 2 => got = null
            /\ n >= 2 =>
                 /\ got = RefErrorEstimate(xformsInserted, normalize)
                 /\ isValidDouble(e)
                 /\ got = IF n % 2 = 1 THEN HalfOf(e) ELSE e

\* C5 witness: three transforms of different translations and attitudes have
\* been inserted and the estimate is half a non-zero difference.
C5_Witness ==
    /\ Len(xformsInserted) = 3
    /\ \E i, j \in 1..3 : xformsInserted[i].theAtt # xformsInserted[j].theAtt
    /\ LET e == maxMagResultDifference(Transforms_medianPrev(xformTracker),
                                       Transforms_medianNext(xformTracker),
                                       FALSE)
       IN  /\ isValidDouble(e)
           /\ e[1] >= Fix(2)
           /\ Transforms_medianErrorEstimate(xformTracker, FALSE) = HalfOf(e)
           /\ Transforms_medianErrorEstimate(xformTracker, TRUE)
                # Transforms_medianErrorEstimate(xformTracker, FALSE)

(***************************************************************************)
(* network::EdgeDir                                                        *)
(***************************************************************************)
\* sNullKey: the largest value of the key type, reserved as "no station"
\* (std::numeric_limits<StaKey>::max(), here of a 32 bit signed integer).
sNullKey == 2147483647

\* The station keys in use, and the null key.
StaKeySet == (0..(NumKeys - 1)) \cup { sNullKey }

\* network::isValid(StaKey)
isValidKey(key) == key < sNullKey

\* EdgeDir{ theFromKey, theIntoKey }
EdgeDir(from, into) == [ theFromKey |-> from, theIntoKey |-> into ]

EdgeDirSet == { EdgeDir(from, into) : from \in StaKeySet, into \in StaKeySet }

\* EdgeDir::isValid
EdgeDir_isValid(dir) ==
    /\ isValidKey(dir.theFromKey)
    /\ isValidKey(dir.theIntoKey)
    /\ dir.theFromKey # dir.theIntoKey

\* Mutant: the comparison of the keys alone, whatever the validity.
compareTo_NoValidCheck(this, testDir) ==
    IF testDir.theFromKey = this.theFromKey
       /\ testDir.theIntoKey = this.theIntoKey
    THEN "Forward"
    ELSE IF testDir.theIntoKey = this.theFromKey
            /\ testDir.theFromKey = this.theIntoKey
         THEN "Reverse"
         ELSE "Different"

\* EdgeDir::compareTo
compareTo(this, testDir) ==
    IF EdgeDir_isValid(this)
    THEN IF testDir.theFromKey = this.theFromKey
            /\ testDir.theIntoKey = this.theIntoKey
         THEN "Forward"
         ELSE IF testDir.theIntoKey = this.theFromKey
                 /\ testDir.theFromKey = this.theIntoKey
              THEN "Reverse"
              ELSE "Different"
    ELSE "Different"

\* Mutant: the keys are not swapped.
reverseEdgeDir_Same(dir) == dir

\* EdgeDir::reverseEdgeDir
reverseEdgeDir(dir) ==
    [ theFromKey |-> dir.theIntoKey, theIntoKey |-> dir.theFromKey ]

(***************************************************************************)
(* Specification SpecEdgeDir: compareTo called on a pair of directions.    *)
(***************************************************************************)
InitEdgeDir ==
    /\ cmp_this \in EdgeDirSet
    /\ cmp_test \in EdgeDirSet
    /\ cmp_result = "none"
    /\ IdleExceptEdgeDir

CallCompareTo ==
    /\ cmp_result = "none"
    /\ cmp_result' = compareTo(cmp_this, cmp_test)
    /\ UNCHANGED <<cmp_this, cmp_test, restOfEdgeDir>>

NextEdgeDir == CallCompareTo

SpecEdgeDir == InitEdgeDir /\ [][NextEdgeDir]_vars

\* The relation of b to a by equality and swap of the keys alone.
KeysRelation(a, b) ==
    LET same == b.theFromKey = a.theFromKey /\ b.theIntoKey = a.theIntoKey
        swap == b.theFromKey = a.theIntoKey /\ b.theIntoKey = a.theFromKey
    IN  IF same THEN "Forward" ELSE IF swap THEN "Reverse" ELSE "Different"

\* C9 as stated: for every pair of EdgeDir values a and b, null keys and
\* from = into included, a.compareTo(b) is Forward iff b has a's keys, Reverse
\* iff b has a's keys swapped (and is not Forward), Different otherwise.
C9_CompareByKeysAlways ==
    cmp_result # "none" => cmp_result = KeysRelation(cmp_this, cmp_test)

\* C9 amended: when a is valid (no null key, from # into), a.compareTo(b) is
\* Forward iff b has a's keys, Reverse iff b has a's keys swapped, Different
\* otherwise; when a is not valid, a.compareTo(b) is Different for every b.
C9_CompareByKeysWhenValid ==
    cmp_result # "none" =>
        IF EdgeDir_isValid(cmp_this)
        THEN cmp_result = KeysRelation(cmp_this, cmp_test)
        ELSE cmp_result = "Different"

\* C9 witness: a valid direction was compared to its reverse.
C9_Witness ==
    /\ cmp_result = "Reverse"
    /\ EdgeDir_isValid(cmp_this)
    /\ cmp_test = reverseEdgeDir(cmp_this)
    /\ cmp_test # cmp_this

(***************************************************************************)
(* network::EdgeBase, EdgeOri, EdgeRobust                                  *)
(***************************************************************************)
\* EdgeBase::EdgeBase(edgeDir)
EdgeBase(edgeDir) == [ kind |-> "EdgeBase", theEdgeDir |-> edgeDir ]

\* EdgeOri::EdgeOri(edgeDir, xform, fitErr)
EdgeOri(edgeDir, xfm, fitErr) ==
    [ kind |-> "EdgeOri", theEdgeDir |-> edgeDir, theXform |-> xfm,
      theFitErr |-> fitErr ]

\* EdgeRobust::EdgeRobust(edgeDir, xform, reserveSize): the tracker holds
\* the first transform (reserveSize only sets the capacity).
EdgeRobust(edgeDir, xfm) ==
    [ kind |-> "EdgeRobust", theEdgeDir |-> edgeDir,
      theXformTracker |-> Transforms_insert(Transforms_new, xfm) ]

\* EdgeBase::edgeDir, fromKey, intoKey
edgeDir(e) == e.theEdgeDir
fromKey(e) == e.theEdgeDir.theFromKey
intoKey(e) == e.theEdgeDir.theIntoKey

\* Mutant: the sample is dropped.
accumulateXform_Nothing(e, xfm) == e

\* EdgeRobust::accumulateXform
accumulateXform(e, xfm) ==
    [ e EXCEPT !.theXformTracker = Transforms_insert(@, xfm) ]

\* EdgeRobust::xform
EdgeRobust_xform(e) == Transforms_median(e.theXformTracker)

\* virtual EdgeBase::xform
xform(e) ==
    CASE e.kind = "EdgeBase" -> nullTransform
      [] e.kind = "EdgeOri" -> e.theXform
      [] e.kind = "EdgeRobust" -> EdgeRobust_xform(e)

\* The weight of an edge that has no quality estimate.
veryUncertain == Dbl(Fix(1024 * 1024))

\* Mutant: the weight of a single sample is the tracker's estimate too.
EdgeRobust_get_weight_NoSingle(e) ==
    LET numXforms == Transforms_size(e.theXformTracker)
    IN  IF 0 < numXforms
        THEN Transforms_medianErrorEstimate(e.theXformTracker, FALSE)
        ELSE null

\* EdgeRobust::get_weight
EdgeRobust_get_weight(e) ==
    LET numXforms == Transforms_size(e.theXformTracker)
    IN  IF 0 < numXforms
        THEN IF 1 = numXforms
             THEN veryUncertain
             ELSE Transforms_medianErrorEstimate(e.theXformTracker, FALSE)
        ELSE null

\* virtual EdgeBase::get_weight
get_weight(e) ==
    CASE e.kind = "EdgeBase" -> null
      [] e.kind = "EdgeOri" -> e.theFitErr
      [] e.kind = "EdgeRobust" -> EdgeRobust_get_weight(e)

\* EdgeBase::reversedInstance
EdgeBase_reversedInstance(e) == EdgeBase(reverseEdgeDir(e.theEdgeDir))

\* EdgeOri::reversedInstance
EdgeOri_reversedInstance(e) ==
    EdgeOri(reverseEdgeDir(edgeDir(e)), inverse(xform(e)), e.theFitErr)

\* Mutant: the reverse of a robust edge is a robust edge again.
EdgeRobust_reversedInstance_Robust(e) ==
    EdgeRobust(reverseEdgeDir(edgeDir(e)), inverse(xform(e)))

\* EdgeRobust::reversedInstance
EdgeRobust_reversedInstance(e) ==
    EdgeOri(reverseEdgeDir(edgeDir(e)), inverse(xform(e)), get_weight(e))

\* virtual EdgeBase::reversedInstance
reversedInstance(e) ==
    CASE e.kind = "EdgeBase" -> EdgeBase_reversedInstance(e)
      [] e.kind = "EdgeOri" -> EdgeOri_reversedInstance(e)
      [] e.kind = "EdgeRobust" -> EdgeRobust_reversedInstance(e)

(***************************************************************************)
(* Specification SpecEdge: one edge object, constructed as any variant,    *)
(* accumulating transforms (EdgeRobust) and replaced by its reverse.       *)
(***************************************************************************)
\* Fit errors given to EdgeOri edges: 0.5 and 2.
FitErrSet == { Dbl(1), Dbl(Fix(2)) }

\* Directions of the edge: both ways between two stations, a station to
\* itself, a null key, and the default direction of two null keys.
EdgeDirInputs ==
    { EdgeDir(0, 1), EdgeDir(1, 0), EdgeDir(1, 1), EdgeDir(sNullKey, 0),
      EdgeDir(sNullKey, sNullKey) }

InitEdge ==
    /\ \E dir \in EdgeDirInputs :
          \/ /\ edge = EdgeBase(dir)
             /\ edgeSamples = << >>
          \/ \E xfm \in XformSet, fitErr \in FitErrSet :
                /\ edge = EdgeOri(dir, xfm, fitErr)
                /\ edgeSamples = << >>
          \/ \E xfm \in XformSet :
                /\ edge = EdgeRobust(dir, xfm)
                /\ edgeSamples = << xfm >>
    /\ edgeBefore = << >>
    /\ IdleExceptEdge

\* edge.accumulateXform(xfm), a member of EdgeRobust only.
AccumulateXform(xfm) ==
    /\ edge.kind = "EdgeRobust"
    /\ Len(edgeSamples) < MaxAccum
    /\ edge' = accumulateXform(edge, xfm)
    /\ edgeSamples' = Append(edgeSamples, xfm)
    /\ UNCHANGED <<edgeBefore, restOfEdge>>

\* edge = edge.reversedInstance()
ReverseEdge ==
    /\ edgeBefore' = edge
    /\ edge' = reversedInstance(edge)
    /\ edgeSamples' = << >>
    /\ UNCHANGED restOfEdge

NextEdge ==
    \/ \E xfm \in XformSet : AccumulateXform(xfm)
    \/ ReverseEdge

SpecEdge == InitEdge /\ [][NextEdge]_vars

(***************************************************************************)
(* Claims on the edges                                                     *)
(***************************************************************************)
\* The tracker holding the given transforms, inserted in order.
RECURSIVE TrackerOf(_)
TrackerOf(samples) ==
    IF samples = << >>
    THEN Transforms_new
    ELSE Transforms_insert(TrackerOf(SubSeq(samples, 1, Len(samples) - 1)),
                           samples[Len(samples)])

\* C6 as stated: for an EdgeRobust holding n >= 1 accumulated samples,
\* xform() is the tracker's median() and get_weight() equals the tracker's
\* un-normalized medianErrorEstimate for that n, n = 1 included.
C6_WeightIsEstimateAlways ==
    edge.kind = "EdgeRobust" =>
        LET trk == TrackerOf(edgeSamples)
        IN  /\ Len(edgeSamples) >= 1
            /\ xform(edge) = Transforms_median(trk)
            /\ get_weight(edge) = Transforms_medianErrorEstimate(trk, FALSE)

\* C6 amended: for an EdgeRobust holding n >= 1 accumulated samples, xform()
\* is the median() of a tracker of these samples (for odd n the transform of
\* the middle order statistics); get_weight() equals the un-normalized
\* medianErrorEstimate when n >= 2 and is a valid number then, and is the
\* fixed value 1024 * 1024 when n = 1, where medianErrorEstimate is null.
C6_WeightIsEstimateFromTwo ==
    edge.kind = "EdgeRobust" =>
        LET n == Len(edgeSamples)
            trk == TrackerOf(edgeSamples)
        IN  /\ n >= 1
            /\ Transforms_size(edge.theXformTracker) = n
            /\ xform(edge) = Transforms_median(trk)
            /\ n % 2 = 1 => xform(edge) = OrderTransform(edgeSamples, n \div 2)
            /\ n >= 2 =>
                 /\ get_weight(edge)
                      = Transforms_medianErrorEstimate(trk, FALSE)
                 /\ get_weight(edge) = RefErrorEstimate(edgeSamples, FALSE)
                 /\ isValidDouble(get_weight(edge))
            /\ n = 1 =>
                 /\ get_weight(edge) = Dbl(Fix(1048576))
                 /\ Transforms_medianErrorEstimate(trk, FALSE) = null

\* C6 witness: a robust edge accumulated three transforms and weighs half the
\* non-zero difference of the flanking transforms.
C6_Witness ==
    /\ edge.kind = "EdgeRobust"
    /\ Len(edgeSamples) = 3
    /\ isValidDouble(get_weight(edge))
    /\ get_weight(edge)[1] >= Fix(1)
    /\ get_weight(edge) # veryUncertain
    /\ xform(edge) \notin { edgeSamples[1], edgeSamples[3] }

\* Points at which transforms are compared.
ProbeSet == { zeroVector, e1, e2, e3 }

C8_ReverseKeepsVariant ==
    LET r == reversedInstance(edge)
    IN  /\ r.kind = edge.kind
        /\ edge.kind = "EdgeRobust" => "theXformTracker" \in DOMAIN r

\* C8 amended: reversedInstance() of an EdgeBase is an EdgeBase and of an
\* EdgeOri an EdgeOri; of an EdgeRobust it is an EdgeOri that stores the
\* inverse of the current median and the current weight, has no tracker and
\* so cannot accumulate samples.
C8_ReverseOfRobustIsOri ==
    LET r == reversedInstance(edge)
    IN  /\ edge.kind = "EdgeBase" => r.kind = "EdgeBase"
        /\ edge.kind = "EdgeOri" => r.kind = "EdgeOri"
        /\ edge.kind = "EdgeRobust" =>
             /\ r.kind = "EdgeOri"
             /\ "theXformTracker" \notin DOMAIN r
             /\ r.theXform = inverse(Transforms_median(edge.theXformTracker))
             /\ r.theFitErr = get_weight(edge)
        /\ edgeBefore # << >> =>
             /\ edge.kind # "EdgeRobust"
             /\ edgeBefore.kind = "EdgeBase" <=> edge.kind = "EdgeBase"

\* C8 witness: a robust edge of one sample has been replaced by its reverse,
\* an EdgeOri of the weight of an edge without quality estimate.
C8_Witness ==
    /\ edgeBefore # << >>
    /\ edgeBefore.kind = "EdgeRobust"
    /\ edge.kind = "EdgeOri"
    /\ edge.theFitErr = veryUncertain
    /\ edge = reversedInstance(edgeBefore)

(***************************************************************************)
(* graaf::undirected_graph<StaFrame, std::shared_ptr<EdgeBase>>            *)
(***************************************************************************)
\* StaFrame{ staKey }
StaFrame(staKey) == [ theStaKey |-> staKey ]

\* The empty graph: vertices by id, edges by sorted pair of vertex ids,
\* neighbours by vertex id, and the next vertex id to try.
graph_new ==
    [ vertices |-> << >>, edges |-> << >>, adjacency |-> << >>,
      vertex_id_supplier |-> 0 ]

\* graph::has_vertex
has_vertex(graph, vertId) == vertId \in DOMAIN graph.vertices

\* graph::get_vertex
get_vertex(graph, vertId) == graph.vertices[vertId]

\* graph::vertex_count
vertex_count(graph) == Cardinality(DOMAIN graph.vertices)

\* graph::edge_count
edge_count(graph) == Cardinality(DOMAIN graph.edges)

\* The id graph::add_vertex gives to a new vertex: the first unused id from
\* vertex_id_supplier on.
RECURSIVE next_vertex_id(_, _)
next_vertex_id(graph, id) ==
    IF has_vertex(graph, id) THEN next_vertex_id(graph, id + 1) ELSE id

\* graph::add_vertex: the graph with the new vertex.
add_vertex(graph, vertex) ==
    LET id == next_vertex_id(graph, graph.vertex_id_supplier)
    IN  [ graph EXCEPT !.vertices = (id :> vertex) @@ @,
                       !.vertex_id_supplier = id ]

\* Neighbours of a vertex (none when it has no adjacency entry).
neighbors(graph, vertId) ==
    IF vertId \in DOMAIN graph.adjacency
    THEN graph.adjacency[vertId]
    ELSE {}

\* detail::make_sorted_pair
make_sorted_pair(lhs, rhs) == IF lhs < rhs THEN <<lhs, rhs>> ELSE <<rhs, lhs>>

\* graph::add_edge on an undirected graph: emplace keeps an edge already
\* stored for the pair; both adjacency sets are extended.
add_edge(graph, lhs, rhs, ptEdge) ==
    LET pair == make_sorted_pair(lhs, rhs)
        withLhs == (lhs :> (neighbors(graph, lhs) \cup { rhs }))
                     @@ graph.adjacency
        withRhs == (rhs :> ((IF rhs = lhs THEN withLhs[lhs]
                                          ELSE neighbors(graph, rhs))
                             \cup { lhs }))
                     @@ withLhs
    IN  [ graph EXCEPT !.edges = @ @@ (pair :> ptEdge),
                       !.adjacency = withRhs ]

(***************************************************************************)
(* network::Geometry                                                       *)
(***************************************************************************)
\* The members of a Geometry.
Geometry(vertIdFromStaKey, graph) ==
    [ theVertIdFromStaKey |-> vertIdFromStaKey, theGraph |-> graph ]

\* Geometry::hasStaKey
hasStaKey(geo, staKey) == staKey \in DOMAIN geo.theVertIdFromStaKey

\* Mutant: a vertex is added whether the key is known or not.
ensureStaFrameExists_Always(geo, staKey) ==
    LET graph == add_vertex(geo.theGraph, StaFrame(staKey))
        vId == graph.vertex_id_supplier
    IN  Geometry((staKey :> vId) @@ geo.theVertIdFromStaKey, graph)

\* Geometry::ensureStaFrameExists
ensureStaFrameExists(geo, staKey) ==
    IF ~hasStaKey(geo, staKey)
    THEN LET graph == add_vertex(geo.theGraph, StaFrame(staKey))
             vId == graph.vertex_id_supplier
         IN  Geometry((staKey :> vId) @@ geo.theVertIdFromStaKey, graph)
    ELSE geo

\* Geometry::vertIdForStaKey
vertIdForStaKey(geo, staKey) ==
    IF hasStaKey(geo, staKey)
    THEN geo.theVertIdFromStaKey[staKey]
    ELSE sNullKey

\* Geometry::staKeyForVertId
staKeyForVertId(geo, vertId) ==
    IF has_vertex(geo.theGraph, vertId)
    THEN get_vertex(geo.theGraph, vertId).theStaKey
    ELSE sNullKey

\* Geometry::sizeVerts
sizeVerts(geo) == vertex_count(geo.theGraph)

\* Geometry::sizeEdges
sizeEdges(geo) == edge_count(geo.theGraph)

(***************************************************************************)
(* Specification SpecGeometry: a Geometry driven by insertEdge.            *)
(***************************************************************************)
\* The edges given to insertEdge: one for every direction, the directions
\* with a null key and with from = into included.
EdgeInputSet ==
    { EdgeOri(dir, Transform(zeroVector, identityAttitude), Dbl(1)) :
        dir \in EdgeDirSet }

\* The elements of a finite set, in a fixed order.
RECURSIVE SeqOfSet(_)
SeqOfSet(S) ==
    IF S = {}
    THEN << >>
    ELSE LET x == CHOOSE y \in S : TRUE
         IN  << x >> \o SeqOfSet(S \ { x })

\* A std::shared_ptr that owns nothing.
nullptr == 0

\* The Geometry of the current state.
geometry == Geometry(theVertIdFromStaKey, theGraph)

\* The empty Geometry
Geometry_new == Geometry(<< >>, graph_new)

\* Geometry::insertEdge on the Geometry geo, the edge objects being objs:
\* the Geometry it leaves, and whether it left by exit(1).
Geometry_insertEdge(objs, geo, ptEdge) ==
    LET sta1 == fromKey(objs[ptEdge])
        sta2 == intoKey(objs[ptEdge])
        ensured == ensureStaFrameExists(ensureStaFrameExists(geo, sta1), sta2)
        vId1 == vertIdForStaKey(ensured, sta1)
        vId2 == vertIdForStaKey(ensured, sta2)
    IN  IF ~(isValidKey(vId1) /\ isValidKey(vId2))
        THEN [ geo |-> ensured, fatal |-> TRUE ]
        ELSE [ geo |-> Geometry(ensured.theVertIdFromStaKey,
                                add_edge(ensured.theGraph, vId1, vId2,
                                         ptEdge)),
               fatal |-> FALSE ]

InitGeometry ==
    /\ heap = SeqOfSet(EdgeInputSet)
    /\ theVertIdFromStaKey = << >>
    /\ theGraph = graph_new
    /\ fatal = FALSE
    /\ insertedEdges = << >>
    /\ IdleCalls
    /\ IdleExceptGeometry

\* geometry.insertEdge(ptEdge)
insertEdge(ptEdge) ==
    /\ ~fatal
    /\ Len(insertedEdges) < MaxEdges
    /\ LET after == Geometry_insertEdge(heap, geometry, ptEdge)
       IN  /\ theVertIdFromStaKey' = after.geo.theVertIdFromStaKey
           /\ theGraph' = after.geo.theGraph
           /\ fatal' = after.fatal
    /\ insertedEdges' = Append(insertedEdges, ptEdge)
    /\ UNCHANGED restOfGeometry

NextGeometry == \E ptEdge \in DOMAIN heap : insertEdge(ptEdge)

SpecGeometry == InitGeometry /\ [][NextGeometry]_vars

\* The station keys referenced by the edges given to insertEdge.
ReferencedKeys ==
    { fromKey(heap[insertedEdges[i]]) : i \in 1..Len(insertedEdges) }
      \cup { intoKey(heap[insertedEdges[i]]) : i \in 1..Len(insertedEdges) }

\* The vertices of the graph that carry the station key.
VertsOfKey(staKey) ==
    { vertId \in DOMAIN theGraph.vertices :
        theGraph.vertices[vertId].theStaKey = staKey }

\* C10: after any sequence of insertEdge calls the key-to-vertex map is a
\* bijection between the station keys referenced by the inserted edges and
\* the vertices of the graph: a key is in the map iff exactly one vertex
\* carries it, the mapped vertex id is that vertex, every vertex is the image
\* of its key, and sizeVerts() is the number of distinct keys.
C10_KeyVertexBijection ==
    /\ ~fatal
    /\ DOMAIN theVertIdFromStaKey = ReferencedKeys
    /\ \A staKey \in StaKeySet :
          /\ hasStaKey(geometry, staKey) <=>
                Cardinality(VertsOfKey(staKey)) = 1
          /\ ~hasStaKey(geometry, staKey) => VertsOfKey(staKey) = {}
          /\ hasStaKey(geometry, staKey) =>
                /\ VertsOfKey(staKey) = { vertIdForStaKey(geometry, staKey) }
                /\ staKeyForVertId(geometry,
                                   vertIdForStaKey(geometry, staKey)) = staKey
    /\ \A vertId \in DOMAIN theGraph.vertices :
          vertIdForStaKey(geometry, staKeyForVertId(geometry, vertId))
            = vertId
    /\ sizeVerts(geometry) = Cardinality(ReferencedKeys)

\* C10 witness: three edges have been inserted that share stations, among
\* them one with a null key and one from a station to itself, and the graph
\* has one vertex for each of the three keys referenced.
C10_Witness ==
    /\ Len(insertedEdges) = 3
    /\ \E i, j \in 1..3 :
          /\ fromKey(heap[insertedEdges[i]]) = sNullKey
          /\ fromKey(heap[insertedEdges[j]])
               = intoKey(heap[insertedEdges[j]])
          /\ i # j
    /\ Cardinality(ReferencedKeys) = 3
    /\ sizeVerts(geometry) = 3
    /\ sizeEdges(geometry) = 3

\* C12 as stated: insertEdge called with an edge whose fromKey equals its
\* intoKey emits a fatal error instead of adding the edge to the graph.
C12_EqualEndpointsAreFatal ==
    \A i \in 1..Len(insertedEdges) :
        fromKey(heap[insertedEdges[i]]) = intoKey(heap[insertedEdges[i]]) =>
            /\ fatal
            /\ \A eId \in DOMAIN theGraph.edges :
                  theGraph.edges[eId] # insertedEdges[i]

(***************************************************************************)
(* Geometry::edge and Geometry::networkTree                                *)
(***************************************************************************)
\* graph::has_edge on an undirected graph
has_edge(graph, lhs, rhs) == make_sorted_pair(lhs, rhs) \in DOMAIN graph.edges

\* graph::get_edge on an undirected graph (has_edge holds)
get_edge(graph, lhs, rhs) == graph.edges[make_sorted_pair(lhs, rhs)]
\* Mutant: the pair is looked up as the pair of a directed graph.
Geometry_edge_Directed(geo, dir) ==
    LET vId1 == vertIdForStaKey(geo, dir.theFromKey)
        vId2 == vertIdForStaKey(geo, dir.theIntoKey)
    IN  IF isValidKey(vId1) /\ isValidKey(vId2)
           /\ <<vId1, vId2>> \in DOMAIN geo.theGraph.edges
        THEN geo.theGraph.edges[<<vId1, vId2>>]
        ELSE nullptr

\* Geometry::edge
Geometry_edge(geo, dir) ==
    LET sta1 == dir.theFromKey
        sta2 == dir.theIntoKey
        vId1 == vertIdForStaKey(geo, sta1)
        vId2 == vertIdForStaKey(geo, sta2)
    IN  IF isValidKey(vId1) /\ isValidKey(vId2)
        THEN IF has_edge(geo.theGraph, vId1, vId2)
             THEN get_edge(geo.theGraph, vId1, vId2)
             ELSE IF has_edge(geo.theGraph, vId2, vId1)
                  THEN get_edge(geo.theGraph, vId2, vId1)
                  ELSE nullptr
        ELSE nullptr

\* std::make_shared: the heap with the new object, which has the last address.
make_shared(objs, object) == Append(objs, object)

\* EdgeBase::EdgeBase(): the direction of two null keys.
EdgeBase_default == EdgeBase(EdgeDir(sNullKey, sNullKey))

\* Mutant: the edge stored in the network is reversed where it is.
networkTree_useEdge_InPlace(objs, geo, eId) ==
    LET vId1 == eId[1]
        vId2 == eId[2]
        ptOrigEdge == get_edge(geo.theGraph, vId1, vId2)
        staKey1 == get_vertex(geo.theGraph, vId1).theStaKey
        staKey2 == get_vertex(geo.theGraph, vId2).theStaKey
    IN  IF staKey1 < staKey2
        THEN [ heap |-> objs, ptUseEdge |-> ptOrigEdge ]
        ELSE [ heap |-> [ objs EXCEPT ![ptOrigEdge] = reversedInstance(@) ],
               ptUseEdge |-> ptOrigEdge ]

\* Mutant: the reversed edge keeps the transform of the original.
networkTree_useEdge_KeysOnly(objs, geo, eId) ==
    LET vId1 == eId[1]
        vId2 == eId[2]
        ptOrigEdge == get_edge(geo.theGraph, vId1, vId2)
        staKey1 == get_vertex(geo.theGraph, vId1).theStaKey
        staKey2 == get_vertex(geo.theGraph, vId2).theStaKey
    IN  IF staKey1 < staKey2
        THEN [ heap |-> objs, ptUseEdge |-> ptOrigEdge ]
        ELSE [ heap |-> make_shared(objs,
                                    [ objs[ptOrigEdge] EXCEPT
                                        !.theEdgeDir = reverseEdgeDir(@) ]),
               ptUseEdge |-> Len(objs) + 1 ]

\* networkTree, body of the loop up to the insertion: the edge to insert for
\* the edge id, and the heap that holds it.
networkTree_useEdge(objs, geo, eId) ==
    LET vId1 == eId[1]
        vId2 == eId[2]
        ptOrigEdge == get_edge(geo.theGraph, vId1, vId2)
        staKey1 == get_vertex(geo.theGraph, vId1).theStaKey
        staKey2 == get_vertex(geo.theGraph, vId2).theStaKey
    IN  IF staKey1 < staKey2
        THEN [ heap |-> objs, ptUseEdge |-> ptOrigEdge ]
        ELSE IF staKey2 < staKey1
             THEN [ heap |-> make_shared(objs,
                                         reversedInstance(objs[ptOrigEdge])),
                    ptUseEdge |-> Len(objs) + 1 ]
             ELSE [ heap |-> make_shared(objs, EdgeBase_default),
                    ptUseEdge |-> Len(objs) + 1 ]

\* Geometry::networkTree: the heap, the new Geometry, and whether an
\* insertEdge left by exit(1).
RECURSIVE networkTree(_, _, _)
networkTree(objs, geo, eIds) ==
    IF eIds = << >>
    THEN [ heap |-> objs, network |-> Geometry_new, fatal |-> FALSE ]
    ELSE LET before == networkTree(objs, geo, SubSeq(eIds, 1, Len(eIds) - 1))
             use == networkTree_useEdge(before.heap, geo, eIds[Len(eIds)])
             after == Geometry_insertEdge(use.heap, before.network,
                                          use.ptUseEdge)
         IN  IF before.fatal
             THEN before
             ELSE [ heap |-> use.heap, network |-> after.geo,
                    fatal |-> after.fatal ]

(***************************************************************************)
(* Specification SpecGeometryOps: a Geometry built by insertEdge, then     *)
(* asked for an edge or for the network of some of its edges.              *)
(***************************************************************************)
\* Directions of the edges inserted: between three stations in either
\* direction, from a station to itself, and from the null key.
OpsDirs ==
    { EdgeDir(0, 1), EdgeDir(1, 0), EdgeDir(2, 0), EdgeDir(1, 2),
      EdgeDir(1, 1), EdgeDir(sNullKey, 0) }

\* The edges given to insertEdge: translations tell the directions apart.
OpsInputSet ==
    { EdgeOri(dir, Transform(<< Fix(dir.theIntoKey % 4), Fix(1), Fix(1) >>,
                             halfTurnAttitude), Dbl(1)) :
        dir \in OpsDirs }

\* Transform and weight of every edge of a Geometry.
EdgeValues(objs, geo) ==
    [ eId \in DOMAIN geo.theGraph.edges |->
        [ xform |-> xform(objs[geo.theGraph.edges[eId]]),
          weight |-> get_weight(objs[geo.theGraph.edges[eId]]) ] ]

\* The lists without repetition of edge ids of the graph.
EdgeIdLists(graph) ==
    UNION { { ids \in [ 1..n -> DOMAIN graph.edges ] :
                \A i, j \in 1..n : i # j => ids[i] # ids[j] } :
            n \in 0..Cardinality(DOMAIN graph.edges) }

InitGeometryOps ==
    /\ heap = SeqOfSet(OpsInputSet)
    /\ theVertIdFromStaKey = << >>
    /\ theGraph = graph_new
    /\ fatal = FALSE
    /\ insertedEdges = << >>
    /\ IdleCalls
    /\ IdleExceptGeometry

\* No edge() and no networkTree() has been called yet.
NoCallYet == askedDir = << >> /\ tree = << >>

\* foundEdge = geometry.edge(dir)
CallEdge(dir) ==
    /\ ~fatal
    /\ NoCallYet
    /\ askedDir' = dir
    /\ foundEdge' = Geometry_edge(geometry, dir)
    /\ UNCHANGED <<heap, spanIds, treeIds, tree, treeValues, anchorKey,
                   anchorXform, staXforms, visits, observations,
                   onlyProtocol, poses, varsGeometry, restOfNetwork>>

\* tree = geometry.networkTree(eIds)
CallNetworkTree(eIds) ==
    /\ ~fatal
    /\ NoCallYet
    /\ LET out == networkTree(heap, geometry, eIds)
       IN  /\ heap' = out.heap
           /\ tree' = out.network
           /\ fatal' = out.fatal
           /\ treeValues' = EdgeValues(out.heap, out.network)
    /\ treeIds' = eIds
    /\ UNCHANGED <<askedDir, foundEdge, spanIds, anchorKey, anchorXform,
                   staXforms, visits, observations, onlyProtocol, poses,
                   theVertIdFromStaKey, theGraph, insertedEdges,
                   restOfNetwork>>

NextGeometryOps ==
    \/ \E ptEdge \in DOMAIN heap : NoCallYet /\ insertEdge(ptEdge)
    \/ \E dir \in EdgeDirSet : CallEdge(dir)
    \/ \E eIds \in EdgeIdLists(theGraph) : CallNetworkTree(eIds)

SpecGeometryOps == InitGeometryOps /\ [][NextGeometryOps]_vars

\* The station keys of an edge object, as a set.
KeysOf(e) == { fromKey(e), intoKey(e) }

\* Every stored edge of the Geometry joins the vertices that carry its keys,
\* which exist, and its keys are valid and different.
StoredEdgesAreValid(objs, geo) ==
    \A eId \in DOMAIN geo.theGraph.edges :
        LET e == objs[geo.theGraph.edges[eId]]
        IN  /\ has_vertex(geo.theGraph, eId[1])
            /\ has_vertex(geo.theGraph, eId[2])
            /\ { staKeyForVertId(geo, eId[1]), staKeyForVertId(geo, eId[2]) }
                 = KeysOf(e)
            /\ isValidKey(fromKey(e))
            /\ isValidKey(intoKey(e))
            /\ fromKey(e) # intoKey(e)

\* C11 as stated: in every Geometry reachable by insertEdge calls and by
\* networkTree, each stored edge joins exactly the two vertices whose station
\* keys are the edge's fromKey and intoKey, both keys are valid and
\* different, and both vertices exist.
C11_StoredEdgesAreValid ==
    /\ StoredEdgesAreValid(heap, geometry)
    /\ tree # << >> => StoredEdgesAreValid(heap, tree)

\* The inserted edges that join the two stations of the direction.
InsertedBetween(dir) ==
    { insertedEdges[i] : i \in
        { j \in 1..Len(insertedEdges) :
            KeysOf(heap[insertedEdges[j]]) = KeysOf([ theEdgeDir |-> dir ]) } }

C16_TreeEdgesAreLoHi ==
    /\ tree # << >>
    /\ \A i \in 1..Len(insertedEdges) :
          EdgeDir_isValid(edgeDir(heap[insertedEdges[i]]))
    => /\ ~fatal
       /\ sizeEdges(tree) = Len(treeIds)
       /\ \A eId \in DOMAIN tree.theGraph.edges :
             LET e == heap[tree.theGraph.edges[eId]]
             IN  /\ fromKey(e) < intoKey(e)
                 /\ \E i \in 1..Len(treeIds) :
                       KeysOf(heap[theGraph.edges[treeIds[i]]]) = KeysOf(e)

(***************************************************************************)
(* Geometry::spanningEdgeBases: graaf::kruskal_minimum_spanning_tree        *)
(***************************************************************************)
\* The orders std::sort can leave edges_to_process in.  The elements hold
\* the stored edge values, which are std::shared_ptr<EdgeBase>, and are
\* compared by operator< of those values: the addresses of the edge objects,
\* which the allocator decides.  EdgeBase::operator<, which compares
\* get_weight(), takes EdgeBase operands and is not what is compared.
edges_to_process(graph) ==
    { ids \in EdgeIdLists(graph) : Len(ids) = edge_count(graph) }

\* graaf detail::merge_sets: every vertex of the set from_set joins to_set.
merge_sets(parent, from_set, to_set) ==
    [ v \in DOMAIN parent |->
        IF parent[v] = from_set THEN to_set ELSE parent[v] ]

\* The loop of kruskal_minimum_spanning_tree over edges[k..].
RECURSIVE kruskal_loop(_, _, _, _, _)
kruskal_loop(graph, edges, k, parent, mst_edges) ==
    IF k > Len(edges)
    THEN mst_edges
    ELSE LET vertex_a == edges[k][1]
             vertex_b == edges[k][2]
             joins == parent[vertex_a] # parent[vertex_b]
             mst == IF joins THEN Append(mst_edges, edges[k]) ELSE mst_edges
             merged == IF joins
                       THEN merge_sets(parent, parent[vertex_a],
                                       parent[vertex_b])
                       ELSE parent
         IN  IF Len(mst) = vertex_count(graph) - 1
             THEN mst
             ELSE kruskal_loop(graph, edges, k + 1, merged, mst)

\* kruskal_minimum_spanning_tree for one order of edges_to_process.
kruskal_minimum_spanning_tree(graph, edges) ==
    kruskal_loop(graph, edges, 1, [ v \in DOMAIN graph.vertices |-> v ],
                 << >>)

\* Geometry::spanningEdgeBases: the vectors it can return.
spanningEdgeBases(geo) ==
    { kruskal_minimum_spanning_tree(geo.theGraph, edges) :
        edges \in edges_to_process(geo.theGraph) }

\* The edges given to insertEdge: over four stations, three weights.
SpanInputSet ==
    { EdgeOri(EdgeDir(0, 1), Transform(zeroVector, identityAttitude), Dbl(Fix(1))),
      EdgeOri(EdgeDir(1, 0), Transform(zeroVector, identityAttitude), Dbl(Fix(3))),
      EdgeOri(EdgeDir(1, 2), Transform(zeroVector, identityAttitude), Dbl(Fix(2))),
      EdgeOri(EdgeDir(2, 0), Transform(zeroVector, identityAttitude), Dbl(Fix(1))),
      EdgeOri(EdgeDir(2, 0), Transform(zeroVector, identityAttitude), Dbl(Fix(3))),
      EdgeOri(EdgeDir(0, 1), Transform(zeroVector, identityAttitude), Dbl(Fix(2))),
      EdgeOri(EdgeDir(3, 2), Transform(zeroVector, identityAttitude), Dbl(Fix(2))) }

InitSpanning ==
    /\ heap = SeqOfSet(SpanInputSet)
    /\ theVertIdFromStaKey = << >>
    /\ theGraph = graph_new
    /\ fatal = FALSE
    /\ insertedEdges = << >>
    /\ IdleCalls
    /\ IdleExceptGeometry

\* spanIds = << geometry.spanningEdgeBases() >>
CallSpanningEdgeBases ==
    /\ ~fatal
    /\ spanIds = << >>
    /\ \E ids \in spanningEdgeBases(geometry) : spanIds' = << ids >>
    /\ UNCHANGED <<heap, askedDir, foundEdge, treeIds, tree, treeValues,
                   anchorKey, anchorXform, staXforms, visits, observations,
                   onlyProtocol, poses, varsGeometry, restOfNetwork>>

NextSpanning ==
    \/ \E ptEdge \in DOMAIN heap : spanIds = << >> /\ insertEdge(ptEdge)
    \/ CallSpanningEdgeBases

SpecSpanning == InitSpanning /\ [][NextSpanning]_vars

\* The vertices an edge set connects to the vertices S.
RECURSIVE ReachedFrom(_, _)
ReachedFrom(S, E) ==
    LET T == S \cup { v \in UNION { { e[1], e[2] } : e \in E } :
                        \E e \in E : { e[1], e[2] } \cap S # {}
                                     /\ v \in { e[1], e[2] } }
    IN  IF T = S THEN S ELSE ReachedFrom(T, E)

\* The connected components of the vertices V under the edge set E.
ComponentsOf(V, E) == { ReachedFrom({ v }, E) : v \in V }

\* F is a spanning forest of the graph: acyclic, and connecting what the
\* graph connects.
IsSpanningForest(graph, F) ==
    LET V == DOMAIN graph.vertices
    IN  /\ F \subseteq DOMAIN graph.edges
        /\ ComponentsOf(V, F) = ComponentsOf(V, DOMAIN graph.edges)
        /\ Cardinality(F) = Cardinality(V) - Cardinality(ComponentsOf(V, F))

\* The weight of a stored edge: get_weight() of the object, as the
\* fixed-point number it holds.
weightOf(objs, graph, eId) == get_weight(objs[graph.edges[eId]])[1]

RECURSIVE TotalWeight(_, _, _)
TotalWeight(objs, graph, F) ==
    IF F = {}
    THEN 0
    ELSE LET eId == CHOOSE e \in F : TRUE
         IN  weightOf(objs, graph, eId) + TotalWeight(objs, graph, F \ { eId })

SpanningForestAnyOrder ==
    spanIds # << >> =>
        LET ids == spanIds[1]
            F == { ids[i] : i \in 1..Len(ids) }
            V == DOMAIN theGraph.vertices
            C == ComponentsOf(V, DOMAIN theGraph.edges)
        IN  /\ Cardinality(F) = Len(ids)
            /\ Len(ids) = Cardinality(V) - Cardinality(C)
            /\ IsSpanningForest(theGraph, F)

(***************************************************************************)
(* Geometry::propagateTransforms                                            *)
(***************************************************************************)
\* Mutant: the stored edge is used as it is, never reversed.
edgeBaseForEdgeId_NoReverse(objs, geo, eId) ==
    IF has_vertex(geo.theGraph, eId[1]) /\ has_vertex(geo.theGraph, eId[2])
    THEN << objs[get_edge(geo.theGraph, eId[1], eId[2])] >>
    ELSE << >>

\* Geometry::edgeBaseForEdgeId: the edge object to use for the traversal
\* from eId.first to eId.second, nullptr when the stored edge does not join
\* the two stations.
edgeBaseForEdgeId(objs, geo, eId) ==
    LET vId1 == eId[1]
        vId2 == eId[2]
    IN  IF has_vertex(geo.theGraph, vId1) /\ has_vertex(geo.theGraph, vId2)
        THEN LET staKey1 == staKeyForVertId(geo, vId1)
                 staKey2 == staKeyForVertId(geo, vId2)
                 ptGraphEdge == get_edge(geo.theGraph, vId1, vId2)
                 haveDir == edgeDir(objs[ptGraphEdge])
                 wantDir == EdgeDir(staKey1, staKey2)
                 dirComp == compareTo(wantDir, haveDir)
             IN  IF dirComp = "Forward"
                 THEN << objs[ptGraphEdge] >>
                 ELSE IF dirComp = "Reverse"
                      THEN << reversedInstance(objs[ptGraphEdge]) >>
                      ELSE << >>
        ELSE << >>

\* The map and the bookkeeping a traversal carries: the station transforms,
\* the stations assigned by the Propagator in order, whether a null
\* pointer was dereferenced, and what each call of the Propagator found and
\* stored.
Propagation(xforms, assigned, undef, calls) ==
    [ staXforms |-> xforms, visits |-> assigned, undefined |-> undef,
      steps |-> calls ]

\* One call of the Propagator: the keys of the edge it used, whether find()
\* found the from key, the transform found, the edge's xform() and the
\* transform stored for the into key.
PropagatorStep(ptUseEdge, found, xFromWrtRef, xIntoWrtRef) ==
    [ fromKey |-> fromKey(ptUseEdge), intoKey |-> intoKey(ptUseEdge),
      found |-> found, xFromWrtRef |-> xFromWrtRef,
      xform |-> xform(ptUseEdge), xIntoWrtRef |-> xIntoWrtRef ]

\* Mutant: a key that has a transform keeps it.
mapStore_KeepFirst(xforms, key, value) == xforms @@ (key :> value)

\* (*thePtStaXforms)[key] = value
mapStore(xforms, key, value) == (key :> value) @@ xforms

\* Mutant: find() never finds the key.
mapFind_Absent(xforms, key) == nullTransform

\* std::map::find value, null<Transform>() when the key is absent.
mapFind(xforms, key) ==
    IF key \in DOMAIN xforms THEN xforms[key] ELSE nullTransform

\* Mutant: the edge transform is composed on the other side.
Propagator_Swapped(objs, geo, sofar, eId) ==
    LET ptUseEdge == edgeBaseForEdgeId(objs, geo, eId)
    IN  IF ptUseEdge = << >>
        THEN Propagation(sofar.staXforms, sofar.visits, TRUE, sofar.steps)
        ELSE LET xFromWrtRef == mapFind(sofar.staXforms, fromKey(ptUseEdge[1]))
                 xIntoWrtFrom == IF isValidTransform(xFromWrtRef)
                                 THEN xform(ptUseEdge[1])
                                 ELSE nullTransform
                 xIntoWrtRef == Transform_compose(xFromWrtRef, xIntoWrtFrom)
             IN  Propagation(mapStore(sofar.staXforms,
                                      intoKey(ptUseEdge[1]), xIntoWrtRef),
                             Append(sofar.visits, intoKey(ptUseEdge[1])),
                             sofar.undefined,
                             Append(sofar.steps,
                                    PropagatorStep(
                                        ptUseEdge[1],
                                        fromKey(ptUseEdge[1])
                                            \in DOMAIN sofar.staXforms,
                                        xFromWrtRef, xIntoWrtRef)))

\* Geometry::Propagator::operator()
Propagator(objs, geo, sofar, eId) ==
    LET ptUseEdge == edgeBaseForEdgeId(objs, geo, eId)
    IN  IF ptUseEdge = << >>
        THEN Propagation(sofar.staXforms, sofar.visits, TRUE, sofar.steps)
        ELSE LET xFromWrtRef == mapFind(sofar.staXforms, fromKey(ptUseEdge[1]))
                 xIntoWrtFrom == IF isValidTransform(xFromWrtRef)
                                 THEN xform(ptUseEdge[1])
                                 ELSE nullTransform
                 xIntoWrtRef == Transform_compose(xIntoWrtFrom, xFromWrtRef)
             IN  Propagation(mapStore(sofar.staXforms,
                                      intoKey(ptUseEdge[1]), xIntoWrtRef),
                             Append(sofar.visits, intoKey(ptUseEdge[1])),
                             sofar.undefined,
                             Append(sofar.steps,
                                    PropagatorStep(
                                        ptUseEdge[1],
                                        fromKey(ptUseEdge[1])
                                            \in DOMAIN sofar.staXforms,
                                        xFromWrtRef, xIntoWrtRef)))

\* The orders in which the neighbours of a vertex can be iterated.
NeighborOrders(graph, vId) ==
    LET nbrs == neighbors(graph, vId)
    IN  { order \in [ 1..Cardinality(nbrs) -> nbrs ] :
            \A i, j \in 1..Cardinality(nbrs) : i # j => order[i] # order[j] }

\* The inner loop of breadth_first_traverse over order[k..]: the callback
\* runs for, and the queue receives, every neighbour not yet seen.
RECURSIVE exploreNeighbors(_, _, _, _, _, _, _, _)
exploreNeighbors(objs, geo, current, order, k, seen, to_explore, sofar) ==
    IF k > Len(order)
    THEN [ to_explore |-> to_explore, sofar |-> sofar ]
    ELSE IF order[k] \in seen
         THEN exploreNeighbors(objs, geo, current, order, k + 1, seen,
                               to_explore, sofar)
         ELSE exploreNeighbors(objs, geo, current, order, k + 1, seen,
                               Append(to_explore, order[k]),
                               Propagator(objs, geo, sofar,
                                          << current, order[k] >>))

\* graaf::algorithm::breadth_first_traverse with the Propagator as callback:
\* the outcomes over every order of iterating neighbours.
RECURSIVE breadth_first_traverse(_, _, _, _, _)
breadth_first_traverse(objs, geo, to_explore, seen_vertices, sofar) ==
    IF to_explore = << >>
    THEN { sofar }
    ELSE LET current == Head(to_explore)
             seen == seen_vertices \cup { current }
             explored ==
                 { exploreNeighbors(objs, geo, current, order, 1, seen,
                                    Tail(to_explore), sofar) :
                     order \in NeighborOrders(geo.theGraph, current) }
         IN  UNION { breadth_first_traverse(objs, geo, after.to_explore,
                                            seen, after.sofar) :
                     after \in explored }

\* Geometry::propagateTransforms: the outcomes it can have.
propagateTransforms(objs, geo, staKey0, staXform0) ==
    IF 0 < vertex_count(geo.theGraph)
    THEN LET first == Propagation(staKey0 :> staXform0, << >>, FALSE, << >>)
             vId0 == vertIdForStaKey(geo, staKey0)
         IN  IF isValidKey(vId0)
             THEN breadth_first_traverse(objs, geo, << vId0 >>, {}, first)
             ELSE { first }
    ELSE { Propagation(<< >>, << >>, FALSE, << >>) }

(***************************************************************************)
(* updateNetwork: a Geometry of EdgeRobust edges fed with observations      *)
(***************************************************************************)
\* The maps tree.propagateTransforms can return from station 1 held at the
\* identity, station 1 being a station of every network of updateNetwork.
PropagatedMaps(objs, geo) ==
    { out.staXforms :
        out \in propagateTransforms(objs, geo, 1,
                                    Transform(zeroVector, identityAttitude)) }

\* The directions updateNetwork observes: lower to higher feature key.
SlamDirs == { EdgeDir(0, 1), EdgeDir(1, 2) }

\* The directions of edges inserted without looking the pair up first.
RepeatDirs == { EdgeDir(1, 0), EdgeDir(2, 1) }

\* The observed transforms x2w1.
SlamXforms ==
    { Transform(zeroVector, identityAttitude),
      Transform(<< Fix(3), Fix(4), 0 >>, halfTurnAttitude) }

InitSlam ==
    /\ heap = << >>
    /\ theVertIdFromStaKey = << >>
    /\ theGraph = graph_new
    /\ fatal = FALSE
    /\ insertedEdges = << >>
    /\ IdleCalls
    /\ IdleExceptGeometry

\* reinterpret_cast<EdgeRobust *>(ptGraphEdge.get())->accumulateXform(x2w1):
\* the objects the call can leave and whether the process died.  On an
\* EdgeRobust it is accumulateXform.  On an object of another type the call
\* treats the bytes after the EdgeBase part as a tracker, which is undefined:
\* nothing visible happens, or members of the object are overwritten, or the
\* process dies.
castAccumulate(e, x2w1) ==
    IF e.kind = "EdgeRobust"
    THEN { [ edge |-> accumulateXform(e, x2w1), died |-> FALSE ] }
    ELSE { [ edge |-> e, died |-> FALSE ], [ edge |-> e, died |-> TRUE ] }
         \cup (IF e.kind = "EdgeOri"
               THEN { [ edge |-> [ e EXCEPT !.theXform = x2w1 ],
                        died |-> FALSE ],
                      [ edge |-> [ e EXCEPT !.theFitErr = null ],
                        died |-> FALSE ] }
               ELSE {})

\* One pass of the inner loop of updateNetwork for the pair dir and the
\* observed transform x2w1.
updateNetworkPass(dir, x2w1) ==
    /\ ~fatal
    /\ LET ptGraphEdge == Geometry_edge(geometry, dir)
       IN  IF ptGraphEdge # nullptr
           THEN /\ \E out \in castAccumulate(heap[ptGraphEdge], x2w1) :
                      /\ heap' = [ heap EXCEPT ![ptGraphEdge] = out.edge ]
                      /\ fatal' = out.died
                /\ UNCHANGED <<theVertIdFromStaKey, theGraph, insertedEdges>>
           ELSE LET objs == make_shared(heap, EdgeRobust(dir, x2w1))
                    ptEdge == Len(objs)
                    after == Geometry_insertEdge(objs, geometry, ptEdge)
                IN  /\ heap' = objs
                    /\ theVertIdFromStaKey' = after.geo.theVertIdFromStaKey
                    /\ theGraph' = after.geo.theGraph
                    /\ fatal' = after.fatal
                    /\ insertedEdges' = Append(insertedEdges, ptEdge)
    /\ observations' = Append(observations, dir)
    /\ UNCHANGED <<askedDir, foundEdge, spanIds, treeIds, tree, treeValues,
                   anchorKey, anchorXform, staXforms, visits, onlyProtocol,
                   poses, restOfNetwork>>

updateNetwork(dir, x2w1) ==
    /\ Len(observations) < MaxAccum
    /\ updateNetworkPass(dir, x2w1)

\* insertEdge of a new EdgeRobust without looking the pair up first.
insertAgain(dir, x2w1) ==
    /\ ~fatal
    /\ tree = << >>
    /\ Len(insertedEdges) < MaxEdges
    /\ LET objs == make_shared(heap, EdgeRobust(dir, x2w1))
           ptEdge == Len(objs)
           after == Geometry_insertEdge(objs, geometry, ptEdge)
       IN  /\ heap' = objs
           /\ theVertIdFromStaKey' = after.geo.theVertIdFromStaKey
           /\ theGraph' = after.geo.theGraph
           /\ fatal' = after.fatal
           /\ insertedEdges' = Append(insertedEdges, ptEdge)
    /\ onlyProtocol' = FALSE
    /\ UNCHANGED <<askedDir, foundEdge, spanIds, treeIds, tree, treeValues,
                   anchorKey, anchorXform, staXforms, visits, observations,
                   poses, restOfNetwork>>

\* tree = geometry.networkTree(eIds) for the list eIds of all the edge ids.
makeTree ==
    /\ ~fatal
    /\ tree = << >>
    /\ edge_count(theGraph) > 0
    /\ \E eIds \in { SeqOfSet(DOMAIN theGraph.edges) } :
          \E out \in { networkTree(heap, geometry, eIds) } :
              /\ heap' = out.heap
              /\ tree' = out.network
              /\ fatal' = out.fatal
              /\ treeValues' = EdgeValues(out.heap, out.network)
              /\ treeIds' = eIds
              /\ staXforms' = PropagatedMaps(out.heap, out.network)
    /\ UNCHANGED <<askedDir, foundEdge, spanIds, anchorKey, anchorXform,
                   visits, observations, onlyProtocol, poses,
                   theVertIdFromStaKey, theGraph, insertedEdges,
                   restOfNetwork>>

NextSlam ==
    \/ \E dir \in SlamDirs, x2w1 \in SlamXforms :
          updateNetwork(dir, x2w1)
    \/ \E dir \in RepeatDirs :
          insertAgain(dir, Transform(zeroVector, identityAttitude))
    \/ makeTree

SpecSlam == InitSlam /\ [][NextSlam]_vars

\* The number of observations made of the unordered pair of the direction.
ObservationsOf(keys) ==
    Cardinality({ i \in 1..Len(observations) :
                    KeysOf([ theEdgeDir |-> observations[i] ]) = keys })

\* C13: after any sequence of observations processed as in updateNetwork, and
\* after any sequence of insertEdge calls repeating a pair, the graph holds at
\* most one edge object per unordered station pair, and under the
\* updateNetwork protocol that edge's tracker size equals the number of
\* observations made of the pair.
C13_OneEdgePerPair ==
    /\ \A eId1, eId2 \in DOMAIN theGraph.edges :
          KeysOf(heap[theGraph.edges[eId1]]) = KeysOf(heap[theGraph.edges[eId2]])
              => eId1 = eId2
    /\ \A eId \in DOMAIN theGraph.edges :
          { staKeyForVertId(geometry, eId[1]),
            staKeyForVertId(geometry, eId[2]) }
              = KeysOf(heap[theGraph.edges[eId]])
    /\ onlyProtocol =>
          /\ \A eId \in DOMAIN theGraph.edges :
                Transforms_size(heap[theGraph.edges[eId]].theXformTracker)
                    = ObservationsOf(KeysOf(heap[theGraph.edges[eId]]))
          /\ \A i \in 1..Len(observations) :
                Geometry_edge(geometry, observations[i]) # nullptr

\* C13 witness: under the protocol one pair was observed twice and another
\* once, and the graph holds two edges.
C13_Witness ==
    /\ onlyProtocol
    /\ Len(observations) = 3
    /\ ObservationsOf({ 0, 1 }) = 2
    /\ sizeEdges(geometry) = 2

(***************************************************************************)
(* propagateTransforms on the tree of a simulated network                   *)
(***************************************************************************)
\* The station poses S_k of the simulation.
PoseSet ==
    { Transform(zeroVector, identityAttitude),
      Transform(<< Fix(3), Fix(4), 0 >>, halfTurnAttitude),
      Transform(<< Fix(-1), Fix(2), Fix(2) >>, identityAttitude) }

\* The stations of the simulation, and a key that is no station.
PoseKeys == { 0, 1, 2 }
NoStationKey == 7

\* The directions of the edges given to insertEdge.
PropDirs == { EdgeDir(0, 1), EdgeDir(1, 2), EdgeDir(2, 0) }

\* test0's ro: the relative orientation xIntoWrtFrom of two station poses.
ro(xFromWrtRef, xIntoWrtRef) ==
    Transform_compose(xIntoWrtRef, inverse(xFromWrtRef))

InitPropagate ==
    /\ poses \in [ PoseKeys -> PoseSet ]
    /\ heap = SeqOfSet({ EdgeOri(dir,
                                 ro(poses[dir.theFromKey],
                                    poses[dir.theIntoKey]),
                                 Dbl(Fix(1))) : dir \in PropDirs })
    /\ theVertIdFromStaKey = << >>
    /\ theGraph = graph_new
    /\ fatal = FALSE
    /\ insertedEdges = << >>
    /\ askedDir = << >>
    /\ foundEdge = 0
    /\ spanIds = << >>
    /\ treeIds = << >>
    /\ tree = << >>
    /\ treeValues = << >>
    /\ anchorKey = 0
    /\ anchorXform = << >>
    /\ staXforms = << >>
    /\ visits = << >>
    /\ observations = << >>
    /\ onlyProtocol = TRUE
    /\ IdleExceptGeometry

\* propagateTransforms has been called.
Propagated == anchorXform # << >>

\* The pose handed over with the anchor key.
AnchorPose(staKey0) ==
    IF staKey0 \in DOMAIN poses
    THEN poses[staKey0]
    ELSE Transform(<< Fix(3), Fix(4), 0 >>, halfTurnAttitude)

\* tree = geometry.networkTree(geometry.spanningEdgeBases())
buildTree ==
    /\ ~fatal
    /\ tree = << >>
    /\ ~Propagated
    /\ edge_count(theGraph) > 0
    /\ \E eIds \in spanningEdgeBases(geometry) :
          LET out == networkTree(heap, geometry, eIds)
          IN  /\ heap' = out.heap
              /\ tree' = out.network
              /\ fatal' = out.fatal
              /\ treeValues' = EdgeValues(out.heap, out.network)
              /\ spanIds' = << eIds >>
              /\ treeIds' = eIds
    /\ UNCHANGED <<askedDir, foundEdge, anchorKey, anchorXform, staXforms,
                   visits, observations, onlyProtocol, poses,
                   theVertIdFromStaKey, theGraph, insertedEdges,
                   restOfNetwork>>

\* staXforms = net.propagateTransforms(staKey0, staXform0), net being the
\* tree when it has been built and the network itself before.
callPropagateTransforms(staKey0) ==
    /\ ~fatal
    /\ ~Propagated
    /\ \E out \in propagateTransforms(heap,
                                      IF tree = << >> THEN geometry ELSE tree,
                                      staKey0, AnchorPose(staKey0)) :
          /\ staXforms' = out.staXforms
          /\ visits' = out.visits
          /\ fatal' = out.undefined
    /\ anchorKey' = staKey0
    /\ anchorXform' = AnchorPose(staKey0)
    /\ UNCHANGED <<heap, askedDir, foundEdge, spanIds, treeIds, tree,
                   treeValues, observations, onlyProtocol, poses,
                   theVertIdFromStaKey, theGraph, insertedEdges,
                   restOfNetwork>>

NextPropagate ==
    \/ \E ptEdge \in DOMAIN heap :
          tree = << >> /\ ~Propagated /\ insertEdge(ptEdge)
    \/ buildTree
    \/ \E staKey0 \in PoseKeys \cup { NoStationKey } :
          callPropagateTransforms(staKey0)

SpecPropagate == InitPropagate /\ [][NextPropagate]_vars

\* The network is connected and holds every station of the simulation.
ConnectedNetwork ==
    /\ PoseKeys \subseteq DOMAIN theVertIdFromStaKey
    /\ Cardinality(ComponentsOf(DOMAIN theGraph.vertices,
                                DOMAIN theGraph.edges)) = 1

\* C17: for any assignment of poses S_k to stations and any connected network
\* in which every inserted edge from->into carries S_into * inverse(S_from),
\* for every anchor station a,
\* networkTree(spanningEdgeBases()).propagateTransforms(a, S_a) returns a map
\* whose value for every station k is S_k.
C17_PropagationReproducesPoses ==
    Propagated /\ tree # << >> /\ ConnectedNetwork /\ anchorKey \in PoseKeys
        => /\ ~fatal
           /\ DOMAIN staXforms = PoseKeys
           /\ \A k \in PoseKeys : staXforms[k] = poses[k]

\* C17 witness: three stations with three different poses, a triangle of
\* edges, one stored against the key order, propagated from anchor 2.
C17_Witness ==
    /\ Propagated
    /\ tree # << >>
    /\ ConnectedNetwork
    /\ anchorKey = 2
    /\ sizeEdges(geometry) = 3
    /\ sizeEdges(tree) = 2
    /\ Cardinality({ poses[k] : k \in PoseKeys }) = 3
    /\ \E eId \in DOMAIN theGraph.edges :
          intoKey(heap[theGraph.edges[eId]]) < fromKey(heap[theGraph.edges[eId]])
    /\ DOMAIN staXforms = PoseKeys

\* The network propagateTransforms was called on.
PropagatedNetwork == IF tree = << >> THEN geometry ELSE tree

\* C18 as stated: propagateTransforms(anchorKey, anchorXform) called with an
\* anchorKey that is not a station of the network returns an empty map,
\* whether the network is empty or holds other stations.
C18_MissingAnchorGivesEmptyMap ==
    Propagated /\ ~hasStaKey(PropagatedNetwork, anchorKey)
        => staXforms = << >>

\* The tree is connected.
ConnectedTree ==
    /\ tree # << >>
    /\ Cardinality(ComponentsOf(DOMAIN tree.theGraph.vertices,
                                DOMAIN tree.theGraph.edges)) = 1

\* C19: for a tree-shaped network (the networkTree of a spanning tree) and
\* any anchor, propagateTransforms assigns a pose to every frame exactly once,
\* and the returned map is the same for every order in which the
\* breadth-first traversal visits sibling neighbours.
C19_EveryFrameOnceAnyOrder ==
    Propagated /\ ConnectedTree /\ hasStaKey(tree, anchorKey)
        => /\ ~fatal
           /\ \A i, j \in 1..Len(visits) : i # j => visits[i] # visits[j]
           /\ \A i \in 1..Len(visits) : visits[i] # anchorKey
           /\ { visits[i] : i \in 1..Len(visits) } \cup { anchorKey }
                = DOMAIN tree.theVertIdFromStaKey
           /\ DOMAIN staXforms = DOMAIN tree.theVertIdFromStaKey
           /\ \A k \in DOMAIN staXforms : isValidTransform(staXforms[k])
           /\ \A out \in propagateTransforms(heap, tree, anchorKey,
                                             anchorXform) :
                 out.staXforms = staXforms

\* C19 witness: the anchor has two neighbours in the tree, and another
\* order of visiting them assigns the frames in another order.
C19_Witness ==
    /\ Propagated
    /\ ConnectedTree
    /\ hasStaKey(tree, anchorKey)
    /\ Len(visits) = 2
    /\ Cardinality(neighbors(tree.theGraph,
                             vertIdForStaKey(tree, anchorKey))) = 2
    /\ \E out \in propagateTransforms(heap, tree, anchorKey, anchorXform) :
          out.visits # visits

\* C20 as stated: two Geometry instances share nothing: after
\* tree = g.networkTree(eIds), accumulating a further sample into an
\* EdgeRobust of g, or any other operation on g, leaves the transform and
\* weight of every edge of tree, and the result of tree.propagateTransforms,
\* unchanged.
C20_TreeSharesNothing ==
    tree # << >> =>
        /\ EdgeValues(heap, tree) = treeValues
        /\ PropagatedMaps(heap, tree) = staXforms

(***************************************************************************)
(* updateNetwork on a Geometry that holds edges of every type               *)
(***************************************************************************)
\* The edges given to insertEdge: one of each type between stations 0 and 1,
\* and an EdgeOri between stations 1 and 2.
CastInputSet ==
    { EdgeBase(EdgeDir(0, 1)),
      EdgeOri(EdgeDir(0, 1), Transform(zeroVector, identityAttitude),
              Dbl(Fix(1))),
      EdgeRobust(EdgeDir(0, 1), Transform(zeroVector, identityAttitude)),
      EdgeOri(EdgeDir(1, 2), Transform(zeroVector, identityAttitude),
              Dbl(Fix(1))) }

InitCast ==
    /\ heap = << >>
    /\ theVertIdFromStaKey = << >>
    /\ theGraph = graph_new
    /\ fatal = FALSE
    /\ insertedEdges = << >>
    /\ IdleCalls
    /\ IdleExceptGeometry

\* The calls made so far.
CastCalls == Len(heap) + Len(observations)

\* geometry.insertEdge(std::make_shared<...>(e))
insertNew(e) ==
    /\ ~fatal
    /\ CastCalls < MaxAccum + MaxEdges
    /\ Len(insertedEdges) < MaxEdges
    /\ LET objs == make_shared(heap, e)
           ptEdge == Len(objs)
           after == Geometry_insertEdge(objs, geometry, ptEdge)
       IN  /\ heap' = objs
           /\ theVertIdFromStaKey' = after.geo.theVertIdFromStaKey
           /\ theGraph' = after.geo.theGraph
           /\ fatal' = after.fatal
           /\ insertedEdges' = Append(insertedEdges, ptEdge)
    /\ UNCHANGED <<askedDir, foundEdge, spanIds, treeIds, tree, treeValues,
                   anchorKey, anchorXform, staXforms, visits, observations,
                   onlyProtocol, poses, restOfNetwork>>

\* One pass of updateNetwork on that Geometry.
observe(dir, x2w1) ==
    /\ Len(observations) < MaxAccum - 1
    /\ updateNetworkPass(dir, x2w1)

NextCast ==
    \/ \E e \in CastInputSet : insertNew(e)
    \/ \E dir \in SlamDirs :
          observe(dir, Transform(<< Fix(3), Fix(4), 0 >>, halfTurnAttitude))

SpecCast == InitCast /\ [][NextCast]_vars

\* C21 as stated: accumulating a sample into a network edge (the
\* lookup-then-accumulateXform step of updateNetwork) is applied only to
\* EdgeRobust edges: when the edge found for the pair is an EdgeOri or
\* EdgeBase, the accumulation is rejected and that edge is left unchanged.
C21_OnlyRobustAccumulates ==
    /\ ~fatal
    /\ \A eId \in DOMAIN theGraph.edges :
          heap[theGraph.edges[eId]].kind # "EdgeRobust"
              => heap[theGraph.edges[eId]] \in CastInputSet

(***************************************************************************)
(* robust::transformViaParameters, robust::transformViaEffect              *)
(***************************************************************************)
\* The quarter turn half way between the identity and halfTurnAttitude:
\* exp((pi/4) e12), which takes e1 to -e2 and e2 to e1.
quarterTurnAttitude == << <<0, -1, 0>>, <<1, 0, 0>>, <<0, 0, 1>> >>

\* Attitude::physAngle().theBiv: the bivector angle of an attitude, its
\* three components counted in eighths of a turn (pi/4).
physAngle(att) ==
    CASE att = identityAttitude -> << 0, 0, 0 >>
      [] att = quarterTurnAttitude -> << 0, 0, 2 >>
      [] att = halfTurnAttitude -> << 0, 0, 4 >>

\* Attitude{ PhysAngle{ biv } }: the attitude of a bivector angle.
Attitude_fromPhysAngle(biv) ==
    CASE biv = << 0, 0, 0 >> -> identityAttitude
      [] biv = << 0, 0, 2 >> -> quarterTurnAttitude
      [] biv = << 0, 0, 4 >> -> halfTurnAttitude

\* The values medianOf can return for a vector of doubles.
medianOfValues(values) == { out.median : out \in medianOf(values) }

\* The valid transforms of a collection, in order: the ones both estimators
\* gather components from.
gathered(xfs) == SelectSeq(xfs, isValidTransform)

\* robust::transformViaParameters(beg, end): every transform it can return.
transformViaParameters(xfs) ==
    LET numXforms == Len(xfs)
        valid == gathered(xfs)
        compVecs(k) ==
            [ i \in 1..Len(valid) |->
                IF k < 3 THEN valid[i].theLoc[k + 1]
                ELSE physAngle(valid[i].theAtt)[k - 2] ]
    IN  IF 0 < numXforms /\ compVecs(0) # << >>
        THEN { Transform(Vector(m0, m1, m2),
                         Attitude_fromPhysAngle(Vector(m3, m4, m5))) :
                 m0 \in medianOfValues(compVecs(0)),
                 m1 \in medianOfValues(compVecs(1)),
                 m2 \in medianOfValues(compVecs(2)),
                 m3 \in medianOfValues(compVecs(3)),
                 m4 \in medianOfValues(compVecs(4)),
                 m5 \in medianOfValues(compVecs(5)) }
        ELSE { nullTransform }

\* robust::transformViaEffect(beg, end): every transform it can return.
transformViaEffect(xfs) ==
    LET numXforms == Len(xfs)
        valid == gathered(xfs)
        a0 == e1
        b0 == e2
        compVecs(k) == [ i \in 1..Len(valid) |-> valid[i].theLoc[k + 1] ]
        comp_a1s(k) ==
            [ i \in 1..Len(valid) |->
                Attitude_apply(valid[i].theAtt, a0)[k + 1] ]
        comp_b1s(k) ==
            [ i \in 1..Len(valid) |->
                Attitude_apply(valid[i].theAtt, b0)[k + 1] ]
    IN  IF 0 < numXforms /\ compVecs(0) # << >>
        THEN { Transform(Vector(m0, m1, m2),
                         attitudeFrom_e1e2(Vector(a10, a11, a12),
                                           Vector(b10, b11, b12))) :
                 m0 \in medianOfValues(compVecs(0)),
                 m1 \in medianOfValues(compVecs(1)),
                 m2 \in medianOfValues(compVecs(2)),
                 a10 \in medianOfValues(comp_a1s(0)),
                 a11 \in medianOfValues(comp_a1s(1)),
                 a12 \in medianOfValues(comp_a1s(2)),
                 b10 \in medianOfValues(comp_b1s(0)),
                 b11 \in medianOfValues(comp_b1s(1)),
                 b12 \in medianOfValues(comp_b1s(2)) }
        ELSE { nullTransform }

(***************************************************************************)
(* Specification SpecRobust: both estimators called on one collection of   *)
(* at most MaxSamples transforms, valid or not.                            *)
(***************************************************************************)
\* The transforms a collection is made of: the null transform and four
\* valid ones.
RobustInputSet ==
    { nullTransform }
    \cup { Transform(loc, att) :
             loc \in { zeroVector, << Fix(3), Fix(4), 0 >> },
             att \in AttitudeSet }

InitRobust ==
    /\ rb_xforms \in SeqsUpTo(RobustInputSet, MaxSamples)
    /\ rb_viaParameters = << >>
    /\ rb_viaEffect = << >>
    /\ IdleExceptRobust

callTransformViaParameters ==
    /\ rb_viaParameters = << >>
    /\ \E median \in transformViaParameters(rb_xforms) :
           rb_viaParameters' = << median >>
    /\ UNCHANGED <<rb_xforms, rb_viaEffect, restOfRobust>>

callTransformViaEffect ==
    /\ rb_viaEffect = << >>
    /\ \E median \in transformViaEffect(rb_xforms) :
           rb_viaEffect' = << median >>
    /\ UNCHANGED <<rb_xforms, rb_viaParameters, restOfRobust>>

NextRobust == callTransformViaParameters \/ callTransformViaEffect

SpecRobust == InitRobust /\ [][NextRobust]_vars

\* The component-wise mean of two vectors.
MeanOfTwo(a, b) == [ i \in 1..3 |-> (a[i] + b[i]) \div 2 ]

\* What holds of transformViaParameters: invalid for an empty collection and
\* only when nothing valid was given, the one valid transform when there is
\* one, the mean of the six parameters when there are two.
TransformViaParametersContract ==
    LET valid == gathered(rb_xforms)
    IN  rb_viaParameters # << >> =>
          /\ ~isValidTransform(rb_viaParameters[1]) <=> valid = << >>
          /\ Len(valid) = 1 => rb_viaParameters[1] = valid[1]
          /\ Len(valid) = 2 =>
               /\ rb_viaParameters[1].theLoc
                    = MeanOfTwo(valid[1].theLoc, valid[2].theLoc)
               /\ physAngle(rb_viaParameters[1].theAtt)
                    = MeanOfTwo(physAngle(valid[1].theAtt),
                                physAngle(valid[2].theAtt))

\* transformViaParameters has averaged two valid transforms of different
\* attitude.
TransformViaParametersAveraged ==
    /\ rb_viaParameters # << >>
    /\ Len(gathered(rb_xforms)) = 2
    /\ Len(rb_xforms) = 3
    /\ rb_viaParameters[1].theAtt = quarterTurnAttitude

\* C22: transformViaParameters and transformViaEffect return an invalid
\* transform for an empty collection, the one valid transform of a
\* collection that has one, and for two valid transforms their component-
\* wise mean (of the six parameters, respectively of the translation and of
\* the images of e1 and e2); invalid transforms are skipped, and
\* transformViaParameters returns an invalid transform only when every
\* transform was invalid.
C22_SmallCollections ==
    LET valid == gathered(rb_xforms)
    IN  /\ TransformViaParametersContract
        /\ rb_viaEffect # << >> =>
             /\ rb_xforms = << >> => ~isValidTransform(rb_viaEffect[1])
             /\ Len(valid) = 1 => rb_viaEffect[1] = valid[1]
             /\ Len(valid) = 2 =>
                  /\ rb_viaEffect[1].theLoc
                       = MeanOfTwo(valid[1].theLoc, valid[2].theLoc)
                  /\ Attitude_apply(rb_viaEffect[1].theAtt, e1)
                       = MeanOfTwo(Attitude_apply(valid[1].theAtt, e1),
                                   Attitude_apply(valid[2].theAtt, e1))
                  /\ Attitude_apply(rb_viaEffect[1].theAtt, e2)
                       = MeanOfTwo(Attitude_apply(valid[1].theAtt, e2),
                                   Attitude_apply(valid[2].theAtt, e2))

(***************************************************************************)
(* Specification SpecCompare: maxMagResultDifference called on two valid   *)
(* transforms, without normalisation.                                      *)
(***************************************************************************)
\* The transforms compared: four translations, three attitudes.
CompareSet ==
    { Transform(loc, att) :
        loc \in LocSet \cup { << Fix(1), 0, 0 >> },
        att \in AttitudeSet \cup { quarterTurnAttitude } }

InitCompare ==
    /\ nr_x1w0 \in CompareSet
    /\ nr_x2w0 \in CompareSet
    /\ nr_gotMaxMag = << >>
    /\ IdleExceptCompare

callMaxMagResultDifference ==
    /\ nr_gotMaxMag = << >>
    /\ nr_gotMaxMag' = << maxMagResultDifference(nr_x1w0, nr_x2w0, FALSE) >>
    /\ UNCHANGED <<nr_x1w0, nr_x2w0, restOfCompare>>

NextCompare == callMaxMagResultDifference

SpecCompare == InitCompare /\ [][NextCompare]_vars

\* |X(p) - Y(p)| for the two transforms compared, as test0 computes it.
DiffMagAt(locFrom) ==
    LET into1 == Transform_apply(nr_x1w0, locFrom)
        into2 == Transform_apply(nr_x2w0, locFrom)
    IN  magnitude(VecSub(into2, into1))[1]

\* The six basis points.
BasisPoints == { e1, VecNeg(e1), e2, VecNeg(e2), e3, VecNeg(e3) }

\* The largest number of a finite non-empty set.
MaxOf(S) == CHOOSE m \in S : \A n \in S : n <= m

\* C23: for two valid transforms X and Y the largest |X(p) - Y(p)| over the
\* seven points +-e1, +-e2, +-e3, 0 is attained on one of the six basis
\* points (the value at 0 never exceeds it) and is what
\* maxMagResultDifference(X, Y, false) returns: the largest magnitude of the
\* six vectors of hexadDeltaVectors.
C23_MaxOverSevenPoints ==
    nr_gotMaxMag # << >> =>
        LET onBasis == MaxOf({ DiffMagAt(p) : p \in BasisPoints })
            onSeven ==
                MaxOf({ DiffMagAt(p) : p \in BasisPoints \cup { zeroVector } })
            diffs == hexadDeltaVectors(nr_x1w0, nr_x2w0, FALSE)
        IN  /\ DiffMagAt(zeroVector) <= onBasis
            /\ onSeven = onBasis
            /\ nr_gotMaxMag[1] = Dbl(onSeven)
            /\ nr_gotMaxMag[1]
                 = Dbl(MaxOf({ magnitude(diffs[k])[1] : k \in 1..6 }))

\* Two transforms of different attitude and translation were compared, and
\* the difference at the origin is smaller than the one reported.
C23_Witness ==
    /\ nr_gotMaxMag # << >>
    /\ nr_x1w0.theAtt # nr_x2w0.theAtt
    /\ nr_x1w0.theLoc # nr_x2w0.theLoc
    /\ 0 < DiffMagAt(zeroVector)
    /\ Dbl(DiffMagAt(zeroVector)) # nr_gotMaxMag[1]

(***************************************************************************)
(* align::alignDirPair for any reference pair                              *)
(***************************************************************************)
\* The six axis directions, as rows of an attitude.
UnitAxes ==
    { << 1, 0, 0 >>, << -1, 0, 0 >>, << 0, 1, 0 >>, << 0, -1, 0 >>,
      << 0, 0, 1 >>, << 0, 0, -1 >> }

dot(a, b) == a[1] * b[1] + a[2] * b[2] + a[3] * b[3]

\* The ordered pairs of axis directions at a right angle.
PerpendicularAxes ==
    { pr \in UnitAxes \X UnitAxes : dot(pr[1], pr[2]) = 0 }

\* The attitudes that take axes to axes: the 24 rotations the number grid
\* holds exactly.
GridAttitudes ==
    { << pr[1], pr[2], wedge(pr[1], pr[2]) >> : pr \in PerpendicularAxes }

\* u and v point the same way (direction(u) = direction(v)).
SameDirection(u, v) == wedge(u, v) = zeroVector /\ 0 < dot(u, v)

\* alignDirPair, the test (magTol < mag0) && (magTol < mag1): both bivectors
\* have a magnitude above the tolerance (never so for a NaN).
bothAboveTol(refDirPair, bodDirPair) ==
    LET biv0 == wedge(refDirPair[1], refDirPair[2])
        biv1 == wedge(bodDirPair[1], bodDirPair[2])
    IN  /\ isValidVector(biv0) /\ biv0 # zeroVector
        /\ isValidVector(biv1) /\ biv1 # zeroVector

\* alignDirPair, first step: spinP, the rotation in the plane spanned by the
\* two plane normals that takes the reference plane onto the body plane.
\* For opposite planes spinP is the library's square root of -1, which is
\* not modelled: the CASE has no arm for it.
alignPlanes(biv0, biv1) ==
    CASE SameDirection(biv0, biv1) -> identityAttitude
      [] wedge(biv0, biv1) # zeroVector ->
           CHOOSE spinP \in GridAttitudes :
               /\ SameDirection(Attitude_apply(spinP, biv0), biv1)
               /\ Attitude_apply(spinP, wedge(biv0, biv1)) = wedge(biv0, biv1)

\* Mutant: the mean directions are not aligned after the planes are.
alignedAttitude_PlanesOnly(refDirPair, bodDirPair) ==
    alignPlanes(wedge(refDirPair[1], refDirPair[2]),
                wedge(bodDirPair[1], bodDirPair[2]))

\* alignDirPair, the body of the if: spinR = spinQ * spinP, with spinQ the
\* rotation within the body plane that takes the mean direction of the
\* rotated reference pair onto the mean direction of the body pair (the
\* half turn in that plane when the two are opposite).
alignedAttitude(refDirPair, bodDirPair) ==
    LET a0 == refDirPair[1]
        b0 == refDirPair[2]
        a1 == bodDirPair[1]
        b1 == bodDirPair[2]
        biv0 == wedge(a0, b0)
        biv1 == wedge(a1, b1)
        spinP == alignPlanes(biv0, biv1)
        at == Attitude_apply(spinP, a0)
        bt == Attitude_apply(spinP, b0)
        mt == VecAdd(at, bt)
        m1 == VecAdd(a1, b1)
        spinQ == CHOOSE q \in GridAttitudes :
                     /\ Attitude_apply(q, biv1) = biv1
                     /\ SameDirection(Attitude_apply(q, mt), m1)
    IN  Attitude_compose(spinQ, spinP)

\* Mutant: only the body pair is tested for being parallel.
alignDirPair_BodyTestOnly(refDirPair, bodDirPair) ==
    LET biv1 == wedge(bodDirPair[1], bodDirPair[2])
    IN  IF isValidVector(biv1) /\ biv1 # zeroVector
        THEN IF bothAboveTol(refDirPair, bodDirPair)
             THEN alignedAttitude(refDirPair, bodDirPair)
             ELSE identityAttitude
        ELSE nullAttitude

\* align::alignDirPair(refDirPair, bodDirPair)
alignDirPair(refDirPair, bodDirPair) ==
    IF bothAboveTol(refDirPair, bodDirPair)
    THEN alignedAttitude(refDirPair, bodDirPair)
    ELSE nullAttitude

\* sim::bodyDirectionPair with nu = nuEighths / 8: the two directions
\* weighted by wp = 1 + nu and wn = 1 - nu within the plane of the reference
\* pair, then turned by attBodWrtRef.  direction() is kept to a common
\* positive factor: the two vectors of the pair stay equally long, which is
\* all the alignment takes from their lengths.
bodyDirectionPair(refDirPair, attBodWrtRef, nuEighths) ==
    LET a0 == refDirPair[1]
        b0 == refDirPair[2]
        wp == 8 + nuEighths
        wn == 8 - nuEighths
        aTmp == [ i \in 1..3 |-> wp * a0[i] + wn * b0[i] ]
        bTmp == [ i \in 1..3 |-> wn * a0[i] + wp * b0[i] ]
    IN  << Attitude_apply(attBodWrtRef, aTmp),
           Attitude_apply(attBodWrtRef, bTmp) >>

(***************************************************************************)
(* Specification SpecAlign: alignDirPair called on one reference pair and  *)
(* one body pair.                                                          *)
(***************************************************************************)
\* Pairs of equally long directions that span a plane with an axis for its
\* normal: every ordered pair of perpendicular axes, and two pairs at other
\* angles.
PlanePairs ==
    { << [ i \in 1..3 |-> Fix(1) * pr[1][i] ],
         [ i \in 1..3 |-> Fix(1) * pr[2][i] ] >> : pr \in PerpendicularAxes }
    \cup { << << Fix(2), Fix(1), 0 >>, << Fix(1), Fix(2), 0 >> >>,
           << << 0, Fix(2), Fix(-1) >>, << 0, Fix(-1), Fix(2) >> >> }

\* Pairs that span no plane: parallel, anti-parallel, with a null vector.
ParallelPairs ==
    { << e1, e1 >>, << e2, VecNeg(e2) >>, << e3, VecScale(Dbl(Fix(2)), e3) >>,
      << nullVector, e2 >> }

\* The nu of bodyDirectionPair, in eighths: 1/8 and 2/8, the largest the
\* test draws, and 1, which leaves the two directions of the pair as they
\* are (the exact pairs of test1).
NuEighths == { 1, 2, 8 }

\* The two planes are the same plane with opposite sense.
OppositePlanes(refDirPair, bodDirPair) ==
    LET biv0 == wedge(refDirPair[1], refDirPair[2])
        biv1 == wedge(bodDirPair[1], bodDirPair[2])
    IN  /\ isValidVector(biv0) /\ isValidVector(biv1)
        /\ SameDirection(biv0, VecNeg(biv1))

InitAlign ==
    /\ al_refDirPair \in PlanePairs \cup ParallelPairs
    /\ al_bodDirPair \in
         ParallelPairs
         \cup (IF al_refDirPair \in PlanePairs
               THEN { bodyDirectionPair(al_refDirPair, expAtt, nu) :
                        expAtt \in GridAttitudes, nu \in NuEighths }
               ELSE PlanePairs)
    /\ ~OppositePlanes(al_refDirPair, al_bodDirPair)
    /\ al_gotAtt = << >>
    /\ IdleExceptAlign

callAlignDirPair ==
    /\ al_gotAtt = << >>
    /\ al_gotAtt' = << alignDirPair(al_refDirPair, al_bodDirPair) >>
    /\ UNCHANGED <<al_refDirPair, al_bodDirPair, restOfAlign>>

NextAlign == callAlignDirPair

SpecAlign == InitAlign /\ [][NextAlign]_vars

\* The two directions of a pair are parallel or anti-parallel (or not
\* numbers): the bivector of their product has no magnitude.
IsParallel(dirPair) ==
    LET biv == wedge(dirPair[1], dirPair[2])
    IN  ~isValidVector(biv) \/ magnitude(biv) = Dbl(0)

AlignAgreesWith_e1e2 ==
    al_gotAtt # << >> /\ al_refDirPair = << e1, e2 >>
    /\ (IsParallel(al_bodDirPair)
          \/ IsOrthonormal(al_bodDirPair[1], al_bodDirPair[2]))
        => al_gotAtt[1] = alignDirPair_e1e2(al_bodDirPair[1], al_bodDirPair[2])

(***************************************************************************)
(* Specification SpecCycle: propagateTransforms called on a network whose  *)
(* edges need not agree with one another, a triangle among them.           *)
(***************************************************************************)
\* The transforms the edges carry, the null transform among them.
CycleXforms == SlamXforms \cup { nullTransform }

InitCycle ==
    /\ \E carried \in [ PropDirs -> CycleXforms ] :
          heap = SeqOfSet({ EdgeOri(dir, carried[dir], Dbl(Fix(1))) :
                              dir \in PropDirs })
    /\ theVertIdFromStaKey = << >>
    /\ theGraph = graph_new
    /\ fatal = FALSE
    /\ insertedEdges = << >>
    /\ IdleCalls
    /\ IdleExceptGeometry

NextCycle ==
    \/ \E ptEdge \in DOMAIN heap : ~Propagated /\ insertEdge(ptEdge)
    \/ \E staKey0 \in PoseKeys \cup { NoStationKey } :
          callPropagateTransforms(staKey0)

SpecCycle == InitCycle /\ [][NextCycle]_vars

\* The runs propagateTransforms can have made to return what it returned.
RunsOfPropagation ==
    { out \in propagateTransforms(heap, geometry, anchorKey, anchorXform) :
        out.staXforms = staXforms /\ out.visits = visits }

\* The positions of the calls of the Propagator that stored a transform for
\* key before call i of the run.
StoredBefore(run, i, key) ==
    { j \in 1..(i - 1) : run.steps[j].intoKey = key }

\* Whether the map of the run held key when call i began, and with which
\* transform: first the anchor's, then whatever was stored last.
HeldBefore(run, i, key) ==
    key = anchorKey \/ StoredBefore(run, i, key) # {}

PoseBefore(run, i, key) ==
    LET earlier == StoredBefore(run, i, key)
    IN  IF earlier = {} THEN anchorXform
        ELSE run.steps[MaxOf(earlier)].xIntoWrtRef

\* C26: during propagateTransforms on a network that holds the anchor, when
\* an edge of the traversal is processed the from key of the edge used
\* (reversed where needed) is already a key of the result map, so the
\* branch 'bad Graph xFromWrtRef' is not taken, and the pose stored for its
\* into key is the edge's xform() composed with the pose stored for the
\* from key.
C26_FromKeyAlreadyMapped ==
    Propagated /\ hasStaKey(geometry, anchorKey) =>
        /\ ~fatal
        /\ RunsOfPropagation # {}
        /\ \A run \in RunsOfPropagation :
              \A i \in 1..Len(run.steps) :
                  LET step == run.steps[i]
                  IN  /\ step.found
                      /\ HeldBefore(run, i, step.fromKey)
                      /\ step.xIntoWrtRef
                           = Transform_compose(
                                 step.xform,
                                 PoseBefore(run, i, step.fromKey))

\* propagateTransforms ran over the triangle from station 1, gave valid
\* transforms that are not all the same, and used an edge against the
\* direction it is stored in.
C26_Witness ==
    /\ Propagated
    /\ anchorKey = 1
    /\ sizeEdges(geometry) = 3
    /\ \A k \in PoseKeys : isValidTransform(staXforms[k])
    /\ Cardinality({ staXforms[k] : k \in PoseKeys }) = 2
    /\ \E run \in RunsOfPropagation :
          \E i \in 1..Len(run.steps) :
              EdgeDir(run.steps[i].intoKey, run.steps[i].fromKey) \in PropDirs

\* How often the traversal stored a transform for station key.
TimesWritten(key) ==
    Cardinality({ i \in 1..Len(visits) : visits[i] = key })

\* The paths of the network from the anchor to station key that pass no
\* station twice, as sequences of vertex ids.
PathsFromAnchor(key) ==
    LET verts == DOMAIN theGraph.vertices
        vId0 == vertIdForStaKey(geometry, anchorKey)
        vIdK == vertIdForStaKey(geometry, key)
    IN  { path \in UNION { [ 1..n -> verts ] : n \in 2..Cardinality(verts) } :
            /\ path[1] = vId0
            /\ path[Len(path)] = vIdK
            /\ \A i, j \in 1..Len(path) : i # j => path[i] # path[j]
            /\ \A i \in 1..(Len(path) - 1) :
                  path[i + 1] \in neighbors(theGraph, path[i]) }

\* The stations that can be reached from the anchor along more than one path.
ReachedTwoWays ==
    { key \in DOMAIN theVertIdFromStaKey :
        key # anchorKey /\ Cardinality(PathsFromAnchor(key)) > 1 }

\* The transform stored for key is the one computed by the last call of the
\* Propagator for key in the run.
FinalIsLastWritten(run, key) ==
    LET calls == StoredBefore(run, Len(run.steps) + 1, key)
    IN  calls # {} => staXforms[key] = run.steps[MaxOf(calls)].xIntoWrtRef

\* C27 as stated: when propagateTransforms runs on a network with a cycle,
\* every station that can be reached from the anchor along more than one
\* path is written more than once, and its final pose is the one computed
\* from the last edge traversed into it.
C27_EveryStationOfCycleRewritten ==
    Propagated /\ hasStaKey(geometry, anchorKey) =>
        \A key \in ReachedTwoWays :
            /\ TimesWritten(key) > 1
            /\ \A run \in RunsOfPropagation : FinalIsLastWritten(run, key)

\* C27 as amended: a later computed transform overwrites the earlier one:
\* the final pose of a station is the one computed from the last edge
\* traversed into it.  The anchor is never written; only stations that can
\* be reached along more than one path are written more than once, and
\* when there are such stations at least one of them is, not each of them.
C27_SomeStationOfCycleRewritten ==
    Propagated /\ hasStaKey(geometry, anchorKey) =>
        /\ RunsOfPropagation # {}
        /\ \A run \in RunsOfPropagation :
              \A key \in DOMAIN staXforms : FinalIsLastWritten(run, key)
        /\ TimesWritten(anchorKey) = 0
        /\ \A key \in DOMAIN staXforms :
              TimesWritten(key) > 1 => key \in ReachedTwoWays
        /\ ReachedTwoWays # {} =>
              \E key \in ReachedTwoWays : TimesWritten(key) > 1

\* On the triangle one station was written twice, the second transform
\* differing from the first, and the other station once.
C27_Witness ==
    /\ Propagated
    /\ Cardinality(ReachedTwoWays) = 2
    /\ \E key \in ReachedTwoWays : TimesWritten(key) = 1
    /\ \E run \in RunsOfPropagation :
          \E i, j \in 1..Len(run.steps) :
              /\ i < j
              /\ run.steps[i].intoKey = run.steps[j].intoKey
              /\ run.steps[i].xIntoWrtRef # run.steps[j].xIntoWrtRef
              /\ isValidTransform(run.steps[i].xIntoWrtRef)
              /\ isValidTransform(run.steps[j].xIntoWrtRef)

(***************************************************************************)
(* networkTree against the edges it was made from (SpecGeometryOps)        *)
(***************************************************************************)
\* EdgeBase::isValid of an inserted edge: a valid direction, a valid
\* transform and a valid weight.
InsertedEdgesAreValid ==
    \A i \in 1..Len(insertedEdges) :
        LET e == heap[insertedEdges[i]]
        IN  /\ EdgeDir_isValid(edgeDir(e))
            /\ isValidTransform(xform(e))
            /\ isValidDouble(get_weight(e))

\* out is source with the keys swapped and the transform inverted.
IsReversalOf(out, source) ==
    /\ fromKey(out) = intoKey(source)
    /\ intoKey(out) = fromKey(source)
    /\ xform(out) = inverse(xform(source))

\* The edge objects of the tree, and the edge objects of the network that
\* the ids given to networkTree name.
TreeEdges ==
    { heap[tree.theGraph.edges[eId]] : eId \in DOMAIN tree.theGraph.edges }

ListedEdges ==
    { heap[get_edge(theGraph, treeIds[i][1], treeIds[i][2])] :
        i \in 1..Len(treeIds) }

\* C28: for a Geometry built by insertEdge calls with valid edges and any
\* list eIds of distinct edge ids, networkTree(eIds) has exactly as many
\* edges as eIds, its stations are exactly the endpoints of those edges, and
\* every edge of it is the listed edge between the same two stations, either
\* unchanged or reversed: keys swapped and transform inverted.
C28_TreeEdgesArePoseEquivalent ==
    tree # << >> /\ InsertedEdgesAreValid =>
        /\ ~fatal
        /\ sizeEdges(tree) = Len(treeIds)
        /\ DOMAIN tree.theVertIdFromStaKey
             = UNION { KeysOf(source) : source \in ListedEdges }
        /\ sizeVerts(tree) = Cardinality(DOMAIN tree.theVertIdFromStaKey)
        /\ \A source \in ListedEdges :
              \E out \in TreeEdges :
                  /\ KeysOf(out) = KeysOf(source)
                  /\ out = source \/ IsReversalOf(out, source)
        /\ \A out \in TreeEdges :
              \E source \in ListedEdges : KeysOf(out) = KeysOf(source)

\* networkTree was given two of three valid edges and reversed one of them.
C28_Witness ==
    /\ tree # << >>
    /\ InsertedEdgesAreValid
    /\ sizeEdges(geometry) = 3
    /\ Len(treeIds) = 2
    /\ \E source \in ListedEdges : source \in TreeEdges
    /\ \E source \in ListedEdges :
          /\ source \notin TreeEdges
          /\ \E out \in TreeEdges : IsReversalOf(out, source)

(***************************************************************************)
(* Specification SpecQueries: a Geometry that is asked one question, by    *)
(* edge(), spanningEdgeBases(), networkTree() or propagateTransforms(),    *)
(* at any moment of its construction by insertEdge.                        *)
(***************************************************************************)
InitQueries == InitGeometryOps

\* No const member function has been called yet.
NoQueryYet == NoCallYet /\ spanIds = << >> /\ ~Propagated

NextQueries ==
    \/ \E ptEdge \in DOMAIN heap : insertEdge(ptEdge)
    \/ \E dir \in EdgeDirSet : NoQueryYet /\ CallEdge(dir)
    \/ \E eIds \in EdgeIdLists(theGraph) :
          NoQueryYet /\ CallNetworkTree(eIds)
    \/ NoQueryYet /\ CallSpanningEdgeBases
    \/ \E staKey0 \in PoseKeys \cup { NoStationKey } :
          NoQueryYet /\ callPropagateTransforms(staKey0)

SpecQueries == InitQueries /\ [][NextQueries]_vars

\* The edge objects the Geometry points to, by edge id.
StoredEdgeObjects(objs, geo) ==
    [ eId \in DOMAIN geo.theGraph.edges |-> objs[geo.theGraph.edges[eId]] ]

\* Every station, vertex and edge of the first Geometry is in the second,
\* with the same content.
GeometryOnlyGrows(objsBefore, before, objsAfter, after) ==
    /\ \A staKey \in DOMAIN before.theVertIdFromStaKey :
          /\ staKey \in DOMAIN after.theVertIdFromStaKey
          /\ after.theVertIdFromStaKey[staKey]
               = before.theVertIdFromStaKey[staKey]
    /\ \A vertId \in DOMAIN before.theGraph.vertices :
          /\ vertId \in DOMAIN after.theGraph.vertices
          /\ after.theGraph.vertices[vertId]
               = before.theGraph.vertices[vertId]
    /\ \A eId \in DOMAIN before.theGraph.edges :
          /\ eId \in DOMAIN after.theGraph.edges
          /\ StoredEdgeObjects(objsAfter, after)[eId]
               = StoredEdgeObjects(objsBefore, before)[eId]

\* C29: a step that is not an insertEdge (a call of edge, spanningEdgeBases,
\* networkTree or propagateTransforms) leaves the Geometry as it was: the
\* station index, the graph and the edge objects the graph points to; and
\* over any step no station, vertex or edge of the Geometry goes away or
\* changes.
C29_QueriesLeaveGeometryUnchanged ==
    [][ /\ insertedEdges' = insertedEdges =>
              /\ geometry' = geometry
              /\ StoredEdgeObjects(heap', geometry')
                   = StoredEdgeObjects(heap, geometry)
        /\ GeometryOnlyGrows(heap, geometry, heap', geometry') ]_vars

\* networkTree has made a reversed copy of an edge of a Geometry of two
\* edges, and a third edge was inserted afterwards.
C29_Witness ==
    /\ tree # << >>
    /\ Len(heap) > Cardinality(OpsInputSet)
    /\ sizeEdges(tree) = 2
    /\ sizeEdges(geometry) = 3

(***************************************************************************)
(* The streaming tracker against the batch estimator, in SpecTransforms.   *)
(***************************************************************************)
\* The vectors of doubles robust::transformViaEffect gathers from the
\* transforms inserted so far: a component of the translations, of the
\* images of e1, and of the images of e2.
BatchLocs(k) ==
    [ i \in 1..Len(xformsInserted) |-> xformsInserted[i].theLoc[k] ]

BatchImages(basis, k) ==
    [ i \in 1..Len(xformsInserted) |->
        Attitude_apply(xformsInserted[i].theAtt, basis)[k] ]

\* C30: once at least one valid transform has been inserted into a
\* track::Transforms, in whatever order, every track::Values of the tracker
\* has as median() the value robust::medianOf returns for the same values
\* in the order of insertion, and median() of the tracker is the transform
\* robust::transformViaEffect returns for the inserted sequence: same
\* translation, same median images of e1 and e2, same attitude.
C30_TrackerAgreesWithBatch ==
    xformsInserted # << >> =>
        /\ \A k \in 1..3 :
              /\ medianOfValues(BatchLocs(k))
                   = { Values_median(xformTracker.theLocs[k]) }
              /\ medianOfValues(BatchImages(e1, k))
                   = { Values_median(xformTracker.theAtts[1][k]) }
              /\ medianOfValues(BatchImages(e2, k))
                   = { Values_median(xformTracker.theAtts[2][k]) }
        /\ transformViaEffect(xformsInserted)
             = { Transforms_median(xformTracker) }

\* Four transforms were inserted out of order, and the median is a valid
\* transform whose translation is none of the inserted ones.
C30_Witness ==
    /\ Len(xformsInserted) = 4
    /\ xformsInserted[1].theLoc[1] > xformsInserted[2].theLoc[1]
    /\ xformsInserted[1].theAtt # xformsInserted[2].theAtt
    /\ isValidTransform(Transforms_median(xformTracker))
    /\ \A i \in 1..4 :
          xformsInserted[i].theLoc # Transforms_median(xformTracker).theLoc

=============================================================================
